---- MODULE Spec2Model ----
(***************************************************************************)
(* Model of the digital-life-lessons REST server.                          *)
(*                                                                         *)
(* The persisted state is the document store (users, lessons, favorites).  *)
(* Every HTTP request runs in a request slot p; each awaited database call *)
(* of a middleware or handler is one atomic step of that slot, so steps of *)
(* different requests interleave exactly where the code awaits.            *)
(***************************************************************************)
EXTENDS Integers, Sequences, FiniteSets, TLC

\* ------------------------------------------------------------------ bounds
\* Number of request slots (requests that can be in flight together).
NumProcs == 2
\* Total number of requests the clients issue in one behaviour.
MaxReqs == 4
\* Number of lessons createLesson may insert in one behaviour.
MaxLessons == 1

Procs == 1..NumProcs
Emails == {"a@x", "b@x"}

\* A well-formed ObjectId that names no document, and a malformed id.
GhostId == 0
BadId == -1

VARIABLES
    users,      \* users collection: set of documents
    lessons,    \* lessons collection: set of documents
    favorites,  \* favorites collection: set of documents
    nextId,     \* next ObjectId the driver generates on insertOne
    nreq,       \* requests received so far; also the server clock
    pc,         \* pc[p]: position of slot p's request in its handler chain
    req,        \* req[p]: the request (route, verified principal, params, body)
    loc,        \* loc[p]: the handler's local variables
    resp,       \* resp[p]: the response sent (status, body)
    globalCache, \* the process-wide cache {client, db, promise}; 0 is null
    attempts,   \* attempts[k]: state of the promise of the k-th connection
                \* attempt, which constructed client k and issued its connect
    pre,        \* history: the store when the latest request arrived
    prev        \* history: the request completed before the latest one

db == <<users, lessons, favorites, nextId>>
vars ==
    <<users, lessons, favorites, nextId, nreq, pc, req, loc, resp,
      globalCache, attempts, pre, prev>>

\* ------------------------------------------------------- driver primitives
Null == [isNull |-> TRUE]
NoReq == [op |-> "none"]
NoResp == [status |-> 0]
NoLoc == [none |-> TRUE]

ObjectIdIsValid(id) == id >= 0
mustObjectId(id) == IF ObjectIdIsValid(id) THEN id ELSE BadId

\* new Date(): the clock advances as requests arrive.
Now == nreq

UsersWithEmail(coll, email) == {u \in coll : u.email = email}

FindOne(matching) == IF matching = {} THEN Null ELSE CHOOSE d \in matching : TRUE

ById(coll, id) == {d \in coll : d._id = id}
NotDeleted(coll) == {d \in coll : d.isDeleted # TRUE}

\* updateOne: replaces one matching document by its update, update[d], or
\* does nothing when no document matches.
UpdateOne(coll, matching, update) ==
    IF matching = {} THEN coll
    ELSE LET d == CHOOSE x \in matching : TRUE
         IN (coll \ {d}) \cup {update[d]}

\* deleteOne: removes one matching document, or does nothing.
DeleteOne(coll, matching) ==
    IF matching = {} THEN coll
    ELSE coll \ {CHOOSE x \in matching : TRUE}

Includes(arr, x) == \E i \in 1..Len(arr) : arr[i] = x

\* $push in place of $addToSet.
AddToSet_Push(arr, x) == Append(arr, x)
AddToSet(arr, x) == IF Includes(arr, x) THEN arr ELSE Append(arr, x)

Pull(arr, x) == SelectSeq(arr, LAMBDA e : e # x)

\* body.f || dflt
OrDefault(body, f, dflt) ==
    IF f \in DOMAIN body /\ body[f] # "" THEN body[f] ELSE dflt

Msg(m) == [message |-> m]

Free(p) == pc[p] \in {"idle", "done"}

\* Request r reaches its route in slot p: as a new request, its token taken
\* as verified, or as the request verifyFBToken has just passed on, whose
\* principal is the decoded one.
Arrive(p, r) ==
    /\ \/ /\ Free(p)
          /\ nreq < MaxReqs
          /\ nreq' = nreq + 1
       \/ /\ pc[p] = "verified"
          /\ "email" \in DOMAIN r
          /\ r.email = req[p].decoded.email
          /\ UNCHANGED nreq
    /\ req' = [req EXCEPT ![p] = r]

Send(p, status, body) ==
    /\ resp' = [resp EXCEPT ![p] = [status |-> status, body |-> body]]
    /\ pc' = [pc EXCEPT ![p] = "done"]

Goto(p, label) ==
    /\ pc' = [pc EXCEPT ![p] = label]
    /\ resp' = [resp EXCEPT ![p] = NoResp]

LessonIdInputs == {d._id : d \in lessons} \cup {GhostId, BadId}
FavoriteIdInputs == {d._id : d \in favorites} \cup {GhostId, BadId}

\* ----------------------------------------------------------- seeded users
\* The ObjectId the driver gave a seeded account when it was first inserted;
\* it differs from every id generated later.
SeedUserId(email) == IF email = "a@x" THEN 101 ELSE 102

UserDoc(email, role) ==
    [_id |-> SeedUserId(email), email |-> email, name |-> "N", photoURL |-> "",
     role |-> role, isPremium |-> FALSE, createdAt |-> 0, updatedAt |-> 0]

\* The users collections a behaviour may start from: a@x has an ordinary
\* account; b@x has no account, an ordinary account or an admin account.
SeedUsers ==
    {{UserDoc("a@x", "user")} \cup {UserDoc("b@x", r) : r \in roles} :
        roles \in {{}, {"user"}, {"admin"}}}

\* globalCache before the first getDB call, and once the first connection
\* attempt has succeeded.
ColdCache == [client |-> 0, db |-> 0, promise |-> 0]
WarmCache == [client |-> 1, db |-> 1, promise |-> 1]

Init ==
    /\ users \in SeedUsers
    /\ lessons = {}
    /\ favorites = {}
    /\ nextId = 1
    /\ nreq = 0
    /\ pc = [p \in Procs |-> "idle"]
    /\ req = [p \in Procs |-> NoReq]
    /\ loc = [p \in Procs |-> NoLoc]
    /\ resp = [p \in Procs |-> NoResp]
    /\ globalCache = WarmCache
    /\ attempts = <<"fulfilled">>
    /\ pre = Null
    /\ prev = NoReq

\* ------------------------------------------------------------ createLesson
CreateBodies ==
    {[title |-> "T1", shortDescription |-> "S1"],
     [title |-> "T1", shortDescription |-> "S1", accessLevel |-> "premium",
      visibility |-> "private", creatorEmail |-> "b@x"],
     [title |-> "T1"]}

LessonDoc(id, lesson, creatorEmail, user) ==
    [_id |-> id,
     title |-> lesson.title,
     shortDescription |-> lesson.shortDescription,
     details |-> OrDefault(lesson, "details", ""),
     category |-> OrDefault(lesson, "category", "Self-Growth"),
     emotionalTone |-> OrDefault(lesson, "emotionalTone", "Reflective"),
     accessLevel |-> OrDefault(lesson, "accessLevel", "free"),
     visibility |-> OrDefault(lesson, "visibility", "public"),
     creatorEmail |-> creatorEmail,
     creatorName |-> OrDefault(lesson, "creatorName",
                               OrDefault(user, "name", "")),
     creatorPhotoURL |-> OrDefault(lesson, "creatorPhotoURL",
                                   OrDefault(user, "photoURL", "")),
     savedCount |-> 0,
     likesCount |-> 0,
     likes |-> <<>>,
     createdAt |-> Now,
     updatedAt |-> Now,
     isDeleted |-> FALSE,
     isFeatured |-> FALSE,
     isReviewed |-> FALSE]

\* POST /lessons: validation and the read of the creator's User document.
createLessonFindUser(p) ==
    \E email \in Emails, body \in CreateBodies :
        /\ Arrive(p, [op |-> "createLesson", email |-> email, body |-> body])
        /\ Cardinality(lessons) < MaxLessons
        /\ IF OrDefault(body, "title", "") = "" \/ OrDefault(body, "shortDescription", "") = ""
           THEN /\ Send(p, 400, Msg("Title and short description are required"))
                /\ loc' = [loc EXCEPT ![p] = NoLoc]
           ELSE /\ Goto(p, "create_insert")
                /\ loc' = [loc EXCEPT ![p] =
                       [user |-> FindOne({u \in users : u.email = email})]]
        /\ UNCHANGED db

\* POST /lessons: insertOne(doc).
createLessonInsert(p) ==
    /\ pc[p] = "create_insert"
    /\ lessons' = lessons \cup
           {LessonDoc(nextId, req[p].body, req[p].email, loc[p].user)}
    /\ nextId' = nextId + 1
    /\ Send(p, 200, [insertedId |-> nextId])
    /\ UNCHANGED <<users, favorites, nreq, req, loc>>

\* -------------------------------------------------------------- toggleLike
\* The unlike branch without its $inc.
LikeUpdate_NoDec(hasLiked, userId, d) ==
    IF hasLiked
    THEN [d EXCEPT !.likes = Pull(@, userId)]
    ELSE [d EXCEPT !.likes = AddToSet(@, userId), !.likesCount = @ + 1]
LikeUpdate(hasLiked, userId, d) ==
    IF hasLiked
    THEN [d EXCEPT !.likes = Pull(@, userId), !.likesCount = @ - 1]
    ELSE [d EXCEPT !.likes = AddToSet(@, userId), !.likesCount = @ + 1]

\* updatedLesson?.likesCount || 0
LikesCountOrZero(d) == IF d = Null THEN 0 ELSE d.likesCount

\* PATCH /lessons/:id/like: findOne({_id, isDeleted != true}).
toggleLikeFind(p) ==
    \E email \in Emails, id \in LessonIdInputs :
        /\ Arrive(p, [op |-> "toggleLike", email |-> email, id |-> id])
        /\ LET oid == mustObjectId(id)
               lesson == FindOne(NotDeleted(ById(lessons, oid)))
           IN IF oid = BadId
              THEN /\ Send(p, 400, Msg("Invalid lesson id"))
                   /\ loc' = [loc EXCEPT ![p] = NoLoc]
              ELSE IF lesson = Null
              THEN /\ Send(p, 404, Msg("Lesson not found"))
                   /\ loc' = [loc EXCEPT ![p] = NoLoc]
              ELSE /\ Goto(p, "like_update")
                   /\ loc' = [loc EXCEPT ![p] =
                          [hasLiked |-> Includes(lesson.likes, email)]]
        /\ UNCHANGED db

\* PATCH /lessons/:id/like: updateOne with $pull/$addToSet and $inc.
toggleLikeUpdate(p) ==
    /\ pc[p] = "like_update"
    /\ lessons' = UpdateOne(lessons, ById(lessons, req[p].id),
                            [d \in lessons |->
                                LikeUpdate(loc[p].hasLiked, req[p].email, d)])
    /\ Goto(p, "like_reread")
    /\ UNCHANGED <<users, favorites, nextId, nreq, req, loc>>

\* PATCH /lessons/:id/like: findOne({_id}) and the response.
toggleLikeRespond(p) ==
    /\ pc[p] = "like_reread"
    /\ LET updatedLesson == FindOne(ById(lessons, req[p].id))
       IN Send(p, 200, [success |-> TRUE, liked |-> ~loc[p].hasLiked,
                        likesCount |-> LikesCountOrZero(updatedLesson)])
    /\ UNCHANGED <<db, nreq, req, loc>>

\* ---------------------------------------------------------- deleteMyLesson
SoftDelete(d) == [d EXCEPT !.isDeleted = TRUE, !.updatedAt = Now]

\* DELETE /lessons/my/:id: findOne({_id}) and the owner check.
deleteMyLessonFind(p) ==
    \E email \in Emails, id \in LessonIdInputs :
        /\ Arrive(p, [op |-> "deleteMyLesson", email |-> email, id |-> id])
        /\ LET oid == mustObjectId(id)
               lesson == FindOne(ById(lessons, oid))
           IN IF oid = BadId
              THEN Send(p, 400, Msg("Invalid lesson id"))
              ELSE IF lesson = Null \/ lesson.isDeleted = TRUE
              THEN Send(p, 404, Msg("Lesson not found"))
              ELSE IF lesson.creatorEmail # email
              THEN Send(p, 403, Msg("forbidden"))
              ELSE Goto(p, "delmy_write")
        /\ loc' = [loc EXCEPT ![p] = NoLoc]
        /\ UNCHANGED db

\* DELETE /lessons/my/:id: updateOne({_id}, {$set: {isDeleted: true}}).
deleteMyLessonWrite(p) ==
    /\ pc[p] = "delmy_write"
    /\ lessons' = UpdateOne(lessons, ById(lessons, req[p].id),
                            [d \in lessons |-> SoftDelete(d)])
    /\ Send(p, 200, [modified |-> ById(lessons, req[p].id) # {}])
    /\ UNCHANGED <<users, favorites, nextId, nreq, req, loc>>

\* ------------------------------------------------------------- addFavorite
FavoriteDoc(id, lessonId, email) ==
    [_id |-> id, lessonId |-> lessonId, userEmail |-> email, createdAt |-> Now]

IncSavedCount(d) == [d EXCEPT !.savedCount = @ + 1]

\* The existence query keyed by the favorite's _id instead of its lessonId.
ExistingFavorite_ById(coll, lessonObjectId, email) ==
    FindOne({f \in coll : f._id = lessonObjectId /\ f.userEmail = email})
\* findOne({lessonId: lessonObjectId, userEmail: email})
ExistingFavorite(coll, lessonObjectId, email) ==
    FindOne({f \in coll : f.lessonId = lessonObjectId /\ f.userEmail = email})

\* POST /favorites: findOne({lessonId, userEmail}), the existence check.
addFavoriteFind(p) ==
    \E email \in Emails, lessonId \in LessonIdInputs :
        /\ Arrive(p, [op |-> "addFavorite", email |-> email, id |-> lessonId])
        /\ LET lessonObjectId == mustObjectId(lessonId)
               existing == ExistingFavorite(favorites, lessonObjectId, email)
           IN IF lessonObjectId = BadId
              THEN Send(p, 400, Msg("Valid lessonId is required"))
              ELSE IF existing # Null
              THEN Send(p, 400, Msg("Already in favorites"))
              ELSE Goto(p, "fav_insert")
        /\ loc' = [loc EXCEPT ![p] = NoLoc]
        /\ UNCHANGED db

\* POST /favorites: insertOne(favDoc).
addFavoriteInsert(p) ==
    /\ pc[p] = "fav_insert"
    /\ favorites' = favorites \cup {FavoriteDoc(nextId, req[p].id, req[p].email)}
    /\ nextId' = nextId + 1
    /\ loc' = [loc EXCEPT ![p] = [result |-> [insertedId |-> nextId]]]
    /\ Goto(p, "fav_inc")
    /\ UNCHANGED <<users, lessons, nreq, req>>

\* POST /favorites: updateOne({_id: lessonId}, {$inc: {savedCount: 1}}).
addFavoriteInc(p) ==
    /\ pc[p] = "fav_inc"
    /\ lessons' = UpdateOne(lessons, ById(lessons, req[p].id),
                            [d \in lessons |-> IncSavedCount(d)])
    /\ Send(p, 200, loc[p].result)
    /\ UNCHANGED <<users, favorites, nextId, nreq, req, loc>>

\* ---------------------------------------------------------- removeFavorite
DecSavedCount(d) == [d EXCEPT !.savedCount = @ - 1]

\* The decrement's filter without its savedCount condition.
SavedCountFilter_NoGuard(coll, lessonId) == ById(coll, lessonId)
\* The decrement's filter with $gt: 1 in place of $gt: 0.
SavedCountFilter_OffByOne(coll, lessonId) ==
    {d \in ById(coll, lessonId) : d.savedCount > 1}
\* The filter {_id: fav.lessonId, savedCount: {$gt: 0}}.
SavedCountFilter(coll, lessonId) ==
    {d \in ById(coll, lessonId) : d.savedCount > 0}

\* The ownership test dropped from the check.
RemoveFavoriteStatus_NoOwner(fav, email) ==
    IF fav = Null THEN 403 ELSE 200
\* if (!fav || fav.userEmail !== email) return 403
RemoveFavoriteStatus(fav, email) ==
    IF fav = Null \/ fav.userEmail # email THEN 403 ELSE 200

\* DELETE /favorites/:id: findOne({_id}) and the ownership check.
removeFavoriteFind(p) ==
    \E email \in Emails, id \in FavoriteIdInputs :
        /\ Arrive(p, [op |-> "removeFavorite", email |-> email, id |-> id])
        /\ LET oid == mustObjectId(id)
               fav == FindOne(ById(favorites, oid))
           IN IF oid = BadId
              THEN /\ Send(p, 400, Msg("Invalid favorite id"))
                   /\ loc' = [loc EXCEPT ![p] = NoLoc]
              ELSE IF RemoveFavoriteStatus(fav, email) # 200
              THEN /\ Send(p, RemoveFavoriteStatus(fav, email), Msg("forbidden"))
                   /\ loc' = [loc EXCEPT ![p] = NoLoc]
              ELSE /\ Goto(p, "rm_delete")
                   /\ loc' = [loc EXCEPT ![p] = [fav |-> fav]]
        /\ UNCHANGED db

\* DELETE /favorites/:id: deleteOne({_id}).
removeFavoriteDelete(p) ==
    /\ pc[p] = "rm_delete"
    /\ favorites' = DeleteOne(favorites, ById(favorites, req[p].id))
    /\ loc' = [loc EXCEPT ![p] =
           [fav |-> loc[p].fav,
            result |-> [deletedCount |->
                           IF ById(favorites, req[p].id) = {} THEN 0 ELSE 1]]]
    /\ Goto(p, "rm_dec")
    /\ UNCHANGED <<users, lessons, nextId, nreq, req>>

\* DELETE /favorites/:id: the guarded decrement of savedCount.
removeFavoriteDec(p) ==
    /\ pc[p] = "rm_dec"
    /\ lessons' = UpdateOne(lessons, SavedCountFilter(lessons, loc[p].fav.lessonId),
                            [d \in lessons |-> DecSavedCount(d)])
    /\ Send(p, 200, loc[p].result)
    /\ UNCHANGED <<users, favorites, nextId, nreq, req, loc>>

\* ------------------------------------- verifyLessonOwnerOrAdmin, updateLesson
UpdateBodies ==
    {[title |-> "T2", isDeleted |-> FALSE],
     [visibility |-> "private", creatorEmail |-> "b@x", isDeleted |-> TRUE,
      likesCount |-> 5, likes |-> <<"b@x">>, savedCount |-> 7,
      isFeatured |-> TRUE, isReviewed |-> TRUE]}

\* creatorEmail added to the allow-list.
allowedFields_WithCreator ==
    {"title", "shortDescription", "details", "category", "emotionalTone",
     "accessLevel", "visibility", "creatorEmail"}
allowedFields ==
    {"title", "shortDescription", "details", "category", "emotionalTone",
     "accessLevel", "visibility"}

\* isAdmin computed as "the principal has a User document".
IsOwnerOrAdmin_AnyUser(lesson, user, email) ==
    \/ lesson.creatorEmail = email
    \/ user # Null
\* const isOwner = ...; const isAdmin = ...; if (!isOwner && !isAdmin) 403
IsOwnerOrAdmin(lesson, user, email) ==
    \/ lesson.creatorEmail = email
    \/ (user # Null /\ "role" \in DOMAIN user /\ user.role = "admin")

\* updateDoc.$set applied to a document.
ApplyUpdate(body, d) ==
    [f \in DOMAIN d \cup (allowedFields \cap DOMAIN body) \cup {"updatedAt"} |->
        IF f \in allowedFields \cap DOMAIN body THEN body[f]
        ELSE IF f = "updatedAt" THEN Now
        ELSE d[f]]

\* PATCH /lessons/:id, guard: findOne({_id, isDeleted != true}).
ownerGuardFindLesson(p) ==
    \E email \in Emails, id \in LessonIdInputs, body \in UpdateBodies :
        /\ Arrive(p, [op |-> "updateLesson", email |-> email, id |-> id,
                      body |-> body])
        /\ LET oid == mustObjectId(id)
               lesson == FindOne(NotDeleted(ById(lessons, oid)))
           IN IF oid = BadId
              THEN /\ Send(p, 400, Msg("Invalid lesson id"))
                   /\ loc' = [loc EXCEPT ![p] = NoLoc]
              ELSE IF lesson = Null
              THEN /\ Send(p, 404, Msg("Lesson not found"))
                   /\ loc' = [loc EXCEPT ![p] = NoLoc]
              ELSE /\ Goto(p, "guard_user")
                   /\ loc' = [loc EXCEPT ![p] = [lesson |-> lesson]]
        /\ UNCHANGED db

\* PATCH /lessons/:id, guard: findOne({email}) on users and the decision.
ownerGuardFindUser(p) ==
    /\ pc[p] = "guard_user"
    /\ LET email == req[p].email
           user == FindOne({u \in users : u.email = email})
       IN IF ~IsOwnerOrAdmin(loc[p].lesson, user, email)
          THEN Send(p, 403, Msg("forbidden"))
          ELSE Goto(p, "update_write")
    /\ UNCHANGED <<db, nreq, req, loc>>

\* PATCH /lessons/:id, handler: updateOne({_id}, updateDoc).
updateLessonWrite(p) ==
    /\ pc[p] = "update_write"
    /\ lessons' = UpdateOne(lessons, ById(lessons, req[p].id),
                            [d \in lessons |-> ApplyUpdate(req[p].body, d)])
    /\ Send(p, 200, [modified |-> ById(lessons, req[p].id) # {}])
    /\ UNCHANGED <<users, favorites, nextId, nreq, req, loc>>

\* ---------------------------------------------- verifyAdmin, adminDeleteLesson
\* The role test dropped: any principal with a User document passes.
IsAdmin_AnyUser(user) == user # Null
\* if (!user || user.role !== "admin") return 403
IsAdmin(user) == user # Null /\ "role" \in DOMAIN user /\ user.role = "admin"

\* DELETE /lessons/:id, guard: findOne({email}) on users.
verifyAdmin(p) ==
    \E email \in Emails, id \in LessonIdInputs :
        /\ Arrive(p, [op |-> "adminDeleteLesson", email |-> email, id |-> id])
        /\ LET user == FindOne({u \in users : u.email = email})
           IN IF ~IsAdmin(user)
              THEN Send(p, 403, Msg("forbidden"))
              ELSE Goto(p, "admdel_write")
        /\ loc' = [loc EXCEPT ![p] = NoLoc]
        /\ UNCHANGED db

\* DELETE /lessons/:id, handler: updateOne({_id}, {$set: {isDeleted: true}}).
adminDeleteLesson(p) ==
    /\ pc[p] = "admdel_write"
    /\ LET oid == mustObjectId(req[p].id)
       IN IF oid = BadId
          THEN /\ Send(p, 400, Msg("Invalid lesson id"))
               /\ UNCHANGED lessons
          ELSE /\ lessons' = UpdateOne(lessons, ById(lessons, oid),
                                    [d \in lessons |-> SoftDelete(d)])
               /\ Send(p, 200, [modified |-> ById(lessons, oid) # {}])
    /\ UNCHANGED <<users, favorites, nextId, nreq, req, loc>>

\* ---------------------------------------------------------- paymentSuccess
\* The checkout sessions the payment provider holds: one paid session per
\* email (the second names its customer only in metadata), an unpaid one and
\* a paid one that names no customer.
Sessions ==
    {[id |-> "cs_a", payment_status |-> "paid", customer_email |-> "a@x",
      metadata |-> [email |-> "a@x"], payment_intent |-> "pi_a"],
     [id |-> "cs_b", payment_status |-> "paid", customer_email |-> "",
      metadata |-> [email |-> "b@x"], payment_intent |-> "pi_b"],
     [id |-> "cs_u", payment_status |-> "unpaid", customer_email |-> "b@x",
      metadata |-> [email |-> "b@x"], payment_intent |-> ""],
     [id |-> "cs_n", payment_status |-> "paid", customer_email |-> "",
      metadata |-> [plan |-> "premium_lifetime"], payment_intent |-> "pi_n"]}

\* session.customer_email || session.metadata?.email
SessionEmail(session) ==
    IF session.customer_email # "" THEN session.customer_email
    ELSE OrDefault(session.metadata, "email", "")

\* A document with the fields of set written over it.
SetFields(d, set) ==
    [f \in DOMAIN d \cup DOMAIN set |-> IF f \in DOMAIN set THEN set[f] ELSE d[f]]

\* An upsert that inserts whether or not a document matches.
Upsert_AlwaysInsert(coll, matching, filter, set, setOnInsert, id) ==
    coll \cup {SetFields(SetFields(SetFields([_id |-> id], filter), setOnInsert), set)}
\* updateOne(filter, {$set, $setOnInsert}, {upsert: true}): updates one
\* matching document, or inserts filter + $set + $setOnInsert under a new id.
Upsert(coll, matching, filter, set, setOnInsert, id) ==
    IF matching = {}
    THEN coll \cup {SetFields(SetFields(SetFields([_id |-> id], filter), setOnInsert), set)}
    ELSE LET d == CHOOSE x \in matching : TRUE
         IN (coll \ {d}) \cup {SetFields(d, set)}

\* PATCH /payment-success: stripe.checkout.sessions.retrieve(sessionId).
paymentSuccessRetrieve(p) ==
    \E sessionId \in {s.id : s \in Sessions} \cup {""} :
        /\ Arrive(p, [op |-> "paymentSuccess", session_id |-> sessionId])
        /\ IF sessionId = ""
           THEN /\ Send(p, 400, Msg("session_id is required"))
                /\ loc' = [loc EXCEPT ![p] = NoLoc]
           ELSE LET session == CHOOSE s \in Sessions : s.id = sessionId
                    email == SessionEmail(session)
                IN IF session.payment_status = "paid" /\ email # ""
                   THEN /\ Goto(p, "pay_upsert")
                        /\ loc' = [loc EXCEPT ![p] =
                               [session |-> session, email |-> email]]
                   ELSE /\ Send(p, 200, [success |-> FALSE,
                                         message |-> "Payment not completed",
                                         paymentStatus |-> session.payment_status])
                        /\ loc' = [loc EXCEPT ![p] = NoLoc]
        /\ UNCHANGED db

\* PATCH /payment-success: updateOne({email}, updateDoc, {upsert: true}).
paymentSuccessUpsert(p) ==
    /\ pc[p] = "pay_upsert"
    /\ LET email == loc[p].email
           matching == {u \in users : u.email = email}
       IN /\ users' = Upsert(users, matching, [email |-> email],
                             [email |-> email, isPremium |-> TRUE,
                              premiumSince |-> Now,
                              lastTransactionId |-> loc[p].session.payment_intent],
                             [createdAt |-> Now], nextId)
          /\ nextId' = IF matching = {} THEN nextId + 1 ELSE nextId
          /\ Send(p, 200, [success |-> TRUE, email |-> email,
                           transactionId |-> loc[p].session.payment_intent,
                           paymentStatus |-> loc[p].session.payment_status])
    /\ UNCHANGED <<lessons, favorites, nreq, req, loc>>

\* ----------------------------------------------- getIsPremium, lessonDetails
\* A principal counted as premium when their User document has role admin.
getIsPremium_Role(coll, email) ==
    LET u == FindOne({x \in coll : x.email = email})
    IN u # Null /\ "role" \in DOMAIN u /\ u.role = "admin"
\* if (!email) return false; ... return !!u?.isPremium
getIsPremium(coll, email) ==
    IF email = "" THEN FALSE
    ELSE LET u == FindOne({x \in coll : x.email = email})
         IN u # Null /\ "isPremium" \in DOMAIN u /\ u.isPremium = TRUE

\* GET /lessons/:id: findOne({_id, isDeleted != true}).
lessonDetailsFind(p) ==
    \E email \in Emails, id \in LessonIdInputs :
        /\ Arrive(p, [op |-> "lessonDetails", email |-> email, id |-> id])
        /\ LET oid == mustObjectId(id)
               lesson == FindOne(NotDeleted(ById(lessons, oid)))
           IN IF oid = BadId
              THEN /\ Send(p, 400, Msg("Invalid lesson id"))
                   /\ loc' = [loc EXCEPT ![p] = NoLoc]
              ELSE IF lesson = Null
              THEN /\ Send(p, 404, Msg("Lesson not found"))
                   /\ loc' = [loc EXCEPT ![p] = NoLoc]
              ELSE IF lesson.accessLevel = "premium"
              THEN /\ Goto(p, "details_premium")
                   /\ loc' = [loc EXCEPT ![p] = [lesson |-> lesson]]
              ELSE /\ Send(p, 200, lesson)
                   /\ loc' = [loc EXCEPT ![p] = NoLoc]
        /\ UNCHANGED db

\* GET /lessons/:id: getIsPremium(email) and the premium gate.
lessonDetailsPremium(p) ==
    /\ pc[p] = "details_premium"
    /\ LET email == req[p].email
           lesson == loc[p].lesson
           isOwner == lesson.creatorEmail = email
           isPremium == getIsPremium(users, email)
       IN IF ~isPremium /\ ~isOwner
          THEN Send(p, 403, Msg("Premium access required"))
          ELSE Send(p, 200, lesson)
    /\ UNCHANGED <<db, nreq, req, loc>>

\* ------------------------- publicLessons, featuredLessons, mostSavedLessons
\* Text that the code inspects (query values, titles) is a sequence of
\* characters.
Digit ==
    ("0" :> 0) @@ ("1" :> 1) @@ ("2" :> 2) @@ ("3" :> 3) @@ ("4" :> 4) @@
    ("5" :> 5) @@ ("6" :> 6) @@ ("7" :> 7) @@ ("8" :> 8) @@ ("9" :> 9)

NaN == [nan |-> TRUE, val |-> 0]
Num(n) == [nan |-> FALSE, val |-> n]

RECURSIVE TrimStart(_)
TrimStart(s) == IF s # <<>> /\ Head(s) = " " THEN TrimStart(Tail(s)) ELSE s

RECURSIVE TrimEnd(_)
TrimEnd(s) ==
    IF s # <<>> /\ s[Len(s)] = " " THEN TrimEnd(SubSeq(s, 1, Len(s) - 1)) ELSE s

\* String.prototype.trim
Trim(s) == TrimEnd(TrimStart(s))

\* The value of the longest prefix of s made of decimal digits, read after
\* acc; NaN when s starts with no digit and nothing was read.
RECURSIVE ParseDigits(_, _, _)
ParseDigits(s, acc, any) ==
    IF s # <<>> /\ Head(s) \in DOMAIN Digit
    THEN ParseDigits(Tail(s), 10 * acc + Digit[Head(s)], TRUE)
    ELSE IF any THEN Num(acc) ELSE NaN

\* parseInt(s, 10): leading white space, an optional sign, then digits; what
\* follows the digits is ignored.
ParseInt(s) ==
    LET t == TrimStart(s)
    IN IF t # <<>> /\ Head(t) = "-"
       THEN LET r == ParseDigits(Tail(t), 0, FALSE)
            IN IF r.nan THEN NaN ELSE Num(0 - r.val)
       ELSE IF t # <<>> /\ Head(t) = "+"
       THEN ParseDigits(Tail(t), 0, FALSE)
       ELSE ParseDigits(t, 0, FALSE)

\* parseInt(..) || dflt: NaN and 0 are falsy.
NumOr(r, dflt) == IF r.nan \/ r.val = 0 THEN dflt ELSE r.val

Max(a, b) == IF a >= b THEN a ELSE b
Min(a, b) == IF a <= b THEN a ELSE b
\* Math.floor in place of Math.ceil.
Ceil_Floor(a, b) == a \div b
\* Math.ceil(a / b) for a >= 0, b > 0
Ceil(a, b) == (a + b - 1) \div b

Lower(c) ==
    IF c = "A" THEN "a" ELSE IF c = "B" THEN "b" ELSE IF c = "C" THEN "c" ELSE c

\* {$regex: pattern, $options: "i"} for a pattern of plain characters: the
\* pattern occurs in text, letter case ignored.
RegexI(text, pattern) ==
    \E i \in 0..(Len(text) - Len(pattern)) :
        \A j \in 1..Len(pattern) : Lower(text[i + j]) = Lower(pattern[j])

\* const { f = dflt } = req.query
Param(query, f, dflt) == IF f \in DOMAIN query THEN query[f] ELSE dflt

pageNum(query) == Max(1, NumOr(ParseInt(Param(query, "page", <<"1">>)), 1))
limitNum(query) ==
    Min(50, Max(1, NumOr(ParseInt(Param(query, "limit", <<"9">>)), 9)))

\* The listing filter without its isDeleted condition.
PublicBase_WithDeleted(coll) == {d \in coll : d.visibility = "public"}
\* {visibility: "public", isDeleted: {$ne: true}}
PublicBase(coll) == {d \in coll : d.visibility = "public" /\ d.isDeleted # TRUE}

\* The filter publicLessons builds from the query.
PublicFilter(coll, query) ==
    LET category == Param(query, "category", "")
        tone == Param(query, "tone", "")
        search == Trim(Param(query, "search", <<>>))
    IN {d \in PublicBase(coll) :
           /\ category # "" => d.category = category
           /\ tone # "" => d.emotionalTone = tone
           /\ search # <<>> =>
                  RegexI(d.title, search) \/ RegexI(d.shortDescription, search)}

\* Documents with equal sort keys come back in an order the server chooses:
\* by ascending or by descending _id.
TieBefore(d, e, natural) == IF natural THEN d._id < e._id ELSE d._id > e._id

\* sort({createdAt: -1})
NewestFirst(S, natural) ==
    [pr \in S \X S |->
        \/ pr[1].createdAt > pr[2].createdAt
        \/ pr[1].createdAt = pr[2].createdAt /\ TieBefore(pr[1], pr[2], natural)]

\* sort({savedCount: -1, createdAt: -1})
MostSavedThenNewest(S, natural) ==
    [pr \in S \X S |->
        \/ pr[1].savedCount > pr[2].savedCount
        \/ /\ pr[1].savedCount = pr[2].savedCount
           /\ \/ pr[1].createdAt > pr[2].createdAt
              \/ /\ pr[1].createdAt = pr[2].createdAt
                 /\ TieBefore(pr[1], pr[2], natural)]

\* sort({savedCount: -1})
MostSavedFirst(S, natural) ==
    [pr \in S \X S |->
        \/ pr[1].savedCount > pr[2].savedCount
        \/ pr[1].savedCount = pr[2].savedCount /\ TieBefore(pr[1], pr[2], natural)]

\* cursor.sort(..).toArray(): S as a sequence ordered by before.
RECURSIVE Sorted(_, _)
Sorted(S, before) ==
    IF S = {} THEN <<>>
    ELSE LET first == CHOOSE d \in S : \A e \in S : e = d \/ before[<<d, e>>]
         IN <<first>> \o Sorted(S \ {first}, before)

\* cursor.skip(n)
Skip(s, n) == SubSeq(s, n + 1, Len(s))
\* cursor.limit(n)
Limit(s, n) == SubSeq(s, 1, Min(n, Len(s)))

\* The values a client may send for page and for limit.
PageParams == {<<"2">>, <<"3">>, <<"0">>, <<"-", "1">>, <<"a", "b", "c">>}
LimitParams ==
    {<<"5">>, <<"0">>, <<"1", "0", "0">>, <<"-", "3">>, <<"a", "b", "c">>,
     <<"5", "x">>}

NoQuery == [f \in {} |-> ""]

\* Every page with every limit, and each filter with a few of them.
PublicQueries ==
    {SetFields(pg, lm) :
        pg \in {NoQuery} \cup {[page |-> v] : v \in PageParams},
        lm \in {NoQuery} \cup {[limit |-> v] : v \in LimitParams}} \cup
    {SetFields(pg, fl) :
        pg \in {NoQuery, [page |-> <<"2">>, limit |-> <<"5">>]},
        fl \in {[sort |-> "mostSaved"], [category |-> "Career"],
                [tone |-> "Calm", search |-> <<" ", "a", "B", " ">>]}}

\* GET /lessons/public: find(filter).sort(sortDoc).skip(skip).limit(limitNum).
publicLessonsFind(p) ==
    \E query \in PublicQueries, natural \in BOOLEAN :
        /\ Arrive(p, [op |-> "publicLessons", query |-> query])
        /\ LET skip == (pageNum(query) - 1) * limitNum(query)
               matching == PublicFilter(lessons, query)
               before == IF Param(query, "sort", "newest") = "mostSaved"
                         THEN MostSavedThenNewest(matching, natural)
                         ELSE NewestFirst(matching, natural)
           IN loc' = [loc EXCEPT ![p] =
                  [lessons |-> Limit(Skip(Sorted(matching, before), skip),
                                     limitNum(query))]]
        /\ Goto(p, "public_count")
        /\ UNCHANGED db

\* GET /lessons/public: countDocuments(filter) and the response.
publicLessonsCount(p) ==
    /\ pc[p] = "public_count"
    /\ LET query == req[p].query
           total == Cardinality(PublicFilter(lessons, query))
       IN Send(p, 200,
               [lessons |-> loc[p].lessons,
                pagination |-> [total |-> total, page |-> pageNum(query),
                                limit |-> limitNum(query),
                                totalPages |-> Ceil(total, limitNum(query))]])
    /\ UNCHANGED <<db, nreq, req, loc>>

\* GET /lessons/featured
featuredLessons(p) ==
    \E natural \in BOOLEAN :
        /\ Arrive(p, [op |-> "featuredLessons"])
        /\ LET matching == {d \in PublicBase(lessons) : d.isFeatured = TRUE}
           IN Send(p, 200,
                   [lessons |->
                       Limit(Sorted(matching, NewestFirst(matching, natural)), 6)])
        /\ loc' = [loc EXCEPT ![p] = NoLoc]
        /\ UNCHANGED db

\* GET /lessons/most-saved
mostSavedLessons(p) ==
    \E natural \in BOOLEAN :
        /\ Arrive(p, [op |-> "mostSavedLessons"])
        /\ LET matching == PublicBase(lessons)
           IN Send(p, 200,
                   [lessons |->
                       Limit(Sorted(matching, MostSavedFirst(matching, natural)), 6)])
        /\ loc' = [loc EXCEPT ![p] = NoLoc]
        /\ UNCHANGED db

\* ------------------------------------------------ myLessons, listFavorites
\* GET /lessons/my?email=..: the self-only check, then find({creatorEmail,
\* isDeleted != true}).sort({createdAt: -1}).
myLessons(p) ==
    \E email \in Emails, queryEmail \in Emails \cup {""}, natural \in BOOLEAN :
        /\ Arrive(p, [op |-> "myLessons", email |-> email,
                      query |-> [email |-> queryEmail]])
        /\ LET matching == NotDeleted({d \in lessons : d.creatorEmail = queryEmail})
           IN IF queryEmail = ""
              THEN Send(p, 400, Msg("email query parameter is required"))
              ELSE IF queryEmail # email
              THEN Send(p, 403, Msg("forbidden"))
              ELSE Send(p, 200, Sorted(matching, NewestFirst(matching, natural)))
        /\ loc' = [loc EXCEPT ![p] = NoLoc]
        /\ UNCHANGED db

\* The pipeline without its {"lesson.isDeleted": {$ne: true}} stage.
FavoriteRows_WithDeleted(favs, coll, email) ==
    {[_id |-> f._id, lesson |-> d, createdAt |-> f.createdAt] :
        <<f, d>> \in {pr \in favs \X coll :
                        pr[1].userEmail = email /\ pr[2]._id = pr[1].lessonId}}
\* $match userEmail, $lookup lessons, $unwind, $match not deleted, $project.
FavoriteRows(favs, coll, email) ==
    {[_id |-> f._id, lesson |-> d, createdAt |-> f.createdAt] :
        <<f, d>> \in {pr \in favs \X coll :
                        /\ pr[1].userEmail = email
                        /\ pr[2]._id = pr[1].lessonId
                        /\ pr[2].isDeleted # TRUE}}

\* GET /favorites
listFavorites(p) ==
    \E email \in Emails, natural \in BOOLEAN :
        /\ Arrive(p, [op |-> "listFavorites", email |-> email])
        /\ LET rows == FavoriteRows(favorites, lessons, email)
           IN Send(p, 200, [favorites |-> Sorted(rows, NewestFirst(rows, natural))])
        /\ loc' = [loc EXCEPT ![p] = NoLoc]
        /\ UNCHANGED db

\* ----------------------------------------------------- admin lesson routes
\* verifyAdmin in front of the handler that starts at label.
AdminGuard(p, r, label) ==
    /\ Arrive(p, r)
    /\ LET user == FindOne({u \in users : u.email = r.email})
       IN IF ~IsAdmin(user)
          THEN Send(p, 403, Msg("forbidden"))
          ELSE Goto(p, label)
    /\ loc' = [loc EXCEPT ![p] = NoLoc]
    /\ UNCHANGED db

\* GET /lessons, guard.
adminLessonsRawGuard(p) ==
    \E email \in Emails :
        AdminGuard(p, [op |-> "adminLessonsRaw", email |-> email], "raw_find")

\* GET /lessons, handler: find({isDeleted != true}).sort({createdAt: -1}).
adminLessonsRaw(p) ==
    /\ pc[p] = "raw_find"
    /\ \E natural \in BOOLEAN :
           Send(p, 200, Sorted(NotDeleted(lessons),
                               NewestFirst(NotDeleted(lessons), natural)))
    /\ UNCHANGED <<db, nreq, req, loc>>

\* The reports collection: no report is filed in the behaviours modelled.
reports == {}

AdminListQueries ==
    {NoQuery, [visibility |-> "public"], [visibility |-> "private"],
     [flagged |-> "true"], [flagged |-> "false"]}

\* GET /admin/lessons, guard.
adminLessonsListGuard(p) ==
    \E email \in Emails, query \in AdminListQueries :
        AdminGuard(p, [op |-> "adminLessonsList", email |-> email, query |-> query],
                   "list_counts")

\* GET /admin/lessons, handler: the three countDocuments.
adminLessonsListCounts(p) ==
    /\ pc[p] = "list_counts"
    /\ loc' = [loc EXCEPT ![p] =
           [total |-> Cardinality(NotDeleted(lessons)),
            pub |-> Cardinality({d \in NotDeleted(lessons) : d.visibility = "public"}),
            priv |-> Cardinality({d \in NotDeleted(lessons) : d.visibility = "private"})]]
    /\ Goto(p, "list_aggregate")
    /\ UNCHANGED <<db, nreq, req>>

\* $match, $lookup reports, $addFields flagsCount, $project.
AdminListRows(coll, query) ==
    LET visibility == Param(query, "visibility", "all")
        category == Param(query, "category", "")
    IN {SetFields(d, [flagsCount |->
                         Cardinality({r \in reports : r.lessonId = d._id})]) :
           d \in {e \in NotDeleted(coll) :
                     /\ visibility \in {"public", "private"} => e.visibility = visibility
                     /\ category # "" => e.category = category}}

\* GET /admin/lessons, handler: the lessons aggregate and the flagged filter.
adminLessonsListAggregate(p) ==
    /\ pc[p] = "list_aggregate"
    /\ \E natural \in BOOLEAN :
           LET flagged == Param(req[p].query, "flagged", "all")
               rows == AdminListRows(lessons, req[p].query)
               kept == {d \in rows :
                           /\ flagged = "true" => d.flagsCount > 0
                           /\ flagged = "false" => d.flagsCount = 0}
           IN loc' = [loc EXCEPT ![p] =
                  SetFields(loc[p],
                            [lessons |-> Sorted(kept, NewestFirst(kept, natural))])]
    /\ Goto(p, "list_flagged")
    /\ UNCHANGED <<db, nreq, req>>

\* GET /admin/lessons, handler: the reports aggregate and the response.
adminLessonsListRespond(p) ==
    /\ pc[p] = "list_flagged"
    /\ Send(p, 200,
            [stats |-> [total |-> loc[p].total, public |-> loc[p].pub,
                        private |-> loc[p].priv,
                        flagged |-> Cardinality({r.lessonId : r \in reports})],
             lessons |-> loc[p].lessons])
    /\ UNCHANGED <<db, nreq, req, loc>>

\* DELETE /admin/lessons/:id/hard-delete, guard.
hardDeleteLessonGuard(p) ==
    \E email \in Emails, id \in LessonIdInputs :
        AdminGuard(p, [op |-> "hardDeleteLesson", email |-> email, id |-> id],
                   "hard_delete")

\* DELETE /admin/lessons/:id/hard-delete, handler: deleteOne({_id}).
hardDeleteLesson(p) ==
    /\ pc[p] = "hard_delete"
    /\ LET oid == mustObjectId(req[p].id)
       IN IF oid = BadId
          THEN /\ Send(p, 400, Msg("Invalid lesson id"))
               /\ UNCHANGED lessons
          ELSE /\ lessons' = DeleteOne(lessons, ById(lessons, oid))
               /\ IF ById(lessons, oid) = {}
                  THEN Send(p, 404, Msg("Lesson not found"))
                  ELSE Send(p, 200, [success |-> TRUE])
    /\ UNCHANGED <<users, favorites, nextId, nreq, req, loc>>

\* ------------------------ toggleLessonVisibility, setFeatured, setReviewed
\* PATCH /admin/lessons/:id/toggle-visibility, guard.
toggleLessonVisibilityGuard(p) ==
    \E email \in Emails, id \in LessonIdInputs :
        AdminGuard(p, [op |-> "toggleLessonVisibility", email |-> email,
                       id |-> id],
                   "vis_find")

\* PATCH /admin/lessons/:id/toggle-visibility, handler: findOne({_id}).
toggleLessonVisibilityFind(p) ==
    /\ pc[p] = "vis_find"
    /\ LET oid == mustObjectId(req[p].id)
           lesson == FindOne(ById(lessons, oid))
       IN IF oid = BadId
          THEN /\ Send(p, 400, Msg("Invalid lesson id"))
               /\ UNCHANGED loc
          ELSE IF lesson = Null
          THEN /\ Send(p, 404, Msg("Lesson not found"))
               /\ UNCHANGED loc
          ELSE /\ Goto(p, "vis_write")
               /\ loc' = [loc EXCEPT ![p] =
                      [nextVisibility |->
                          IF lesson.visibility = "public" THEN "private"
                          ELSE "public"]]
    /\ UNCHANGED <<db, nreq, req>>

\* A write that also clears isDeleted.
VisibilityUpdate_Restores(nextVisibility, d) ==
    SetFields(d, [visibility |-> nextVisibility, isDeleted |-> FALSE,
                  updatedAt |-> Now])
\* {$set: {visibility: nextVisibility, updatedAt: new Date()}}
VisibilityUpdate(nextVisibility, d) ==
    SetFields(d, [visibility |-> nextVisibility, updatedAt |-> Now])

\* PATCH /admin/lessons/:id/toggle-visibility, handler: updateOne({_id}).
toggleLessonVisibilityWrite(p) ==
    /\ pc[p] = "vis_write"
    /\ lessons' = UpdateOne(lessons, ById(lessons, req[p].id),
                            [d \in lessons |->
                                VisibilityUpdate(loc[p].nextVisibility, d)])
    /\ Send(p, 200, [success |-> TRUE, visibility |-> loc[p].nextVisibility])
    /\ UNCHANGED <<users, favorites, nextId, nreq, req, loc>>

\* PATCH /admin/lessons/:id/featured and /reviewed, guard; the body names
\* the flag or not.
setFlagGuard(p) ==
    \E email \in Emails, id \in LessonIdInputs,
       op \in {"setFeatured", "setReviewed"},
       body \in {[featured |-> TRUE, reviewed |-> TRUE], NoQuery} :
        AdminGuard(p, [op |-> op, email |-> email, id |-> id, body |-> body],
                   "flag_write")

\* !!featured, !!reviewed
Truthy(body, f) == f \in DOMAIN body /\ body[f] = TRUE

\* PATCH /admin/lessons/:id/featured: updateOne({_id}, {$set: {isFeatured}}).
setFeatured(p) ==
    /\ pc[p] = "flag_write"
    /\ req[p].op = "setFeatured"
    /\ LET oid == mustObjectId(req[p].id)
       IN IF oid = BadId
          THEN /\ Send(p, 400, Msg("Invalid lesson id"))
               /\ UNCHANGED lessons
          ELSE /\ lessons' = UpdateOne(lessons, ById(lessons, oid),
                                       [d \in lessons |->
                                           SetFields(d, [isFeatured |-> Truthy(req[p].body, "featured"),
                                                         updatedAt |-> Now])])
               /\ Send(p, 200, [success |-> TRUE])
    /\ UNCHANGED <<users, favorites, nextId, nreq, req, loc>>

\* PATCH /admin/lessons/:id/reviewed: updateOne({_id}, {$set: {isReviewed}}).
setReviewed(p) ==
    /\ pc[p] = "flag_write"
    /\ req[p].op = "setReviewed"
    /\ LET oid == mustObjectId(req[p].id)
       IN IF oid = BadId
          THEN /\ Send(p, 400, Msg("Invalid lesson id"))
               /\ UNCHANGED lessons
          ELSE /\ lessons' = UpdateOne(lessons, ById(lessons, oid),
                                       [d \in lessons |->
                                           SetFields(d, [isReviewed |-> Truthy(req[p].body, "reviewed"),
                                                         updatedAt |-> Now])])
               /\ Send(p, 200, [success |-> TRUE])
    /\ UNCHANGED <<users, favorites, nextId, nreq, req, loc>>

\* ------------------------------------------------ makeAdmin, updateUserRole
UserIdInputs == {u._id : u \in users} \cup {GhostId, BadId}

\* req.body of a role update: a role to set, a role that does not exist, or
\* no role at all.
RoleBodies == {[role |-> "admin"], [role |-> "user"], [role |-> "owner"], NoQuery}

\* PATCH /admin/users/:id/make-admin, guard.
makeAdminGuard(p) ==
    \E email \in Emails, id \in UserIdInputs :
        AdminGuard(p, [op |-> "makeAdmin", email |-> email, id |-> id],
                   "make_admin")

\* PATCH /admin/users/:id/make-admin, handler: updateOne({_id}, {$set: {role}}).
makeAdmin(p) ==
    /\ pc[p] = "make_admin"
    /\ LET oid == mustObjectId(req[p].id)
       IN IF oid = BadId
          THEN /\ Send(p, 400, Msg("Invalid user id"))
               /\ UNCHANGED users
          ELSE /\ users' = UpdateOne(users, ById(users, oid),
                                     [d \in users |->
                                         SetFields(d, [role |-> "admin",
                                                       updatedAt |-> Now])])
               /\ IF ById(users, oid) = {}
                  THEN Send(p, 404, Msg("User not found"))
                  ELSE Send(p, 200, [matchedCount |-> 1])
    /\ UNCHANGED <<lessons, favorites, nextId, nreq, req, loc>>

\* PATCH /admin/users/:id/role, guard.
updateUserRoleGuard(p) ==
    \E email \in Emails, id \in UserIdInputs, body \in RoleBodies :
        AdminGuard(p, [op |-> "updateUserRole", email |-> email, id |-> id,
                       body |-> body],
                   "role_find")

\* The self-demotion test without its role condition.
IsSelfDemotion_AnyRole(email, target, role) == email = target.email
\* req.decoded.email === target.email && role !== "admin"
IsSelfDemotion(email, target, role) == email = target.email /\ role # "admin"

\* PATCH /admin/users/:id/role, handler: the validations and findOne({_id}).
updateUserRoleFind(p) ==
    /\ pc[p] = "role_find"
    /\ LET oid == mustObjectId(req[p].id)
           role == Param(req[p].body, "role", "")
           target == FindOne(ById(users, oid))
       IN IF oid = BadId
          THEN Send(p, 400, Msg("Invalid user id"))
          ELSE IF role \notin {"admin", "user"}
          THEN Send(p, 400, Msg("Invalid role"))
          ELSE IF target = Null
          THEN Send(p, 404, Msg("User not found"))
          ELSE IF IsSelfDemotion(req[p].email, target, role)
          THEN Send(p, 400, Msg("You cannot demote yourself"))
          ELSE Goto(p, "role_write")
    /\ UNCHANGED <<db, nreq, req, loc>>

\* PATCH /admin/users/:id/role, handler: updateOne({_id}, {$set: {role}}).
updateUserRoleWrite(p) ==
    /\ pc[p] = "role_write"
    /\ users' = UpdateOne(users, ById(users, req[p].id),
                          [d \in users |->
                              SetFields(d, [role |-> req[p].body.role,
                                            updatedAt |-> Now])])
    /\ Send(p, 200, [matchedCount |-> Cardinality(ById(users, req[p].id))])
    /\ UNCHANGED <<lessons, favorites, nextId, nreq, req, loc>>

\* ---------------------------------------------------------------- upsertUser
\* req.body of POST /users: the profile a client sends after sign-in, one
\* that also names protected fields, and one without an email.
UpsertBodies ==
    {[email |-> e, name |-> "A", photoURL |-> "p"] : e \in Emails} \cup
    {[email |-> e, displayName |-> "B", role |-> "admin", isPremium |-> TRUE,
      createdAt |-> 99, premiumSince |-> 99, lastTransactionId |-> "pi_x"] :
        e \in Emails} \cup
    {[name |-> "Z"]}

\* updateDoc.$set with isPremium: user.isPremium || false in it.
UpsertUserSet_BodyPremium(user) ==
    [email |-> user.email,
     name |-> OrDefault(user, "name", OrDefault(user, "displayName", "")),
     photoURL |-> OrDefault(user, "photoURL", ""),
     isPremium |-> ("isPremium" \in DOMAIN user /\ user.isPremium),
     updatedAt |-> Now]
\* user.name || user.displayName || "" and user.photoURL || "", with the
\* role and premium flag written on every call.
UpsertUserSet_WithRole(user) ==
    [email |-> user.email,
     name |-> OrDefault(user, "name", OrDefault(user, "displayName", "")),
     photoURL |-> OrDefault(user, "photoURL", ""),
     updatedAt |-> Now, role |-> "user", isPremium |-> FALSE]
\* updateDoc.$set
UpsertUserSet(user) ==
    [email |-> user.email,
     name |-> OrDefault(user, "name", OrDefault(user, "displayName", "")),
     photoURL |-> OrDefault(user, "photoURL", ""),
     updatedAt |-> Now]

\* POST /users: updateOne({email}, updateDoc, {upsert: true}).
upsertUser(p) ==
    \E user \in UpsertBodies :
        /\ Arrive(p, [op |-> "upsertUser", body |-> user])
        /\ IF OrDefault(user, "email", "") = ""
           THEN /\ Send(p, 400, Msg("Email is required"))
                /\ UNCHANGED <<users, nextId>>
           ELSE LET matching == {u \in users : u.email = user.email}
                IN /\ users' = Upsert(users, matching, [email |-> user.email],
                                      UpsertUserSet(user),
                                      [createdAt |-> Now, role |-> "user",
                                       isPremium |-> FALSE], nextId)
                   /\ nextId' = IF matching = {} THEN nextId + 1 ELSE nextId
                   /\ Send(p, 200, [matchedCount |-> IF matching = {} THEN 0 ELSE 1])
        /\ loc' = [loc EXCEPT ![p] = NoLoc]
        /\ UNCHANGED <<lessons, favorites>>

\* ------------------------------------------------------------ checkAdminSelf
\* The handler without its comparison of :email with the principal.
checkAdminSelf_AnyEmail(p) ==
    \E email \in Emails, target \in Emails :
        /\ Arrive(p, [op |-> "checkAdminSelf", email |-> email, target |-> target])
        /\ Send(p, 200, [admin |-> IsAdmin(FindOne(UsersWithEmail(users, target)))])
        /\ loc' = [loc EXCEPT ![p] = NoLoc]
        /\ UNCHANGED db
\* GET /users/admin/:email: findOne({email}), {admin: user?.role === "admin"}.
checkAdminSelf(p) ==
    \E email \in Emails, target \in Emails :
        /\ Arrive(p, [op |-> "checkAdminSelf", email |-> email, target |-> target])
        /\ IF email # target
           THEN Send(p, 403, Msg("forbidden"))
           ELSE Send(p, 200, [admin |-> IsAdmin(FindOne(UsersWithEmail(users, target)))])
        /\ loc' = [loc EXCEPT ![p] = NoLoc]
        /\ UNCHANGED db

\* --------------------------------------------------------- deleteUserByEmail
\* DELETE /users/:email, guard.
deleteUserGuard(p) ==
    \E email \in Emails, target \in Emails :
        AdminGuard(p, [op |-> "deleteUserByEmail", email |-> email,
                       target |-> target],
                   "user_delete")

\* DELETE /users/:email, handler: deleteOne({email}).
deleteUserByEmail(p) ==
    /\ pc[p] = "user_delete"
    /\ LET matching == {u \in users : u.email = req[p].target}
       IN IF req[p].email = req[p].target
          THEN /\ Send(p, 400, Msg("You cannot delete yourself"))
               /\ UNCHANGED users
          ELSE /\ users' = DeleteOne(users, matching)
               /\ IF matching = {}
                  THEN Send(p, 404, Msg("User not found"))
                  ELSE Send(p, 200, [deletedCount |-> 1])
    /\ UNCHANGED <<lessons, favorites, nextId, nreq, req, loc>>

\* ------------------------------------------------------------ verifyFBToken
\* The Authorization header is a sequence of pieces, each a blank or a word;
\* the empty sequence stands for a header that is absent or empty.
NoHeader == <<>>

Headers ==
    {NoHeader, <<"Bearer">>, <<"Bearer", " ">>, <<"tok_a">>,
     <<"Bearer", " ", " ", "tok_a">>, <<"Bearer", " ", "expired">>,
     <<"Bearer", " ", "tok_a">>, <<"Bearer", " ", "tok_b">>}

\* String.prototype.split(sep): cur is the part being read, parts those read.
RECURSIVE SplitAcc(_, _, _, _)
SplitAcc(s, sep, cur, parts) ==
    IF s = <<>> THEN Append(parts, cur)
    ELSE IF Head(s) = sep THEN SplitAcc(Tail(s), sep, <<>>, Append(parts, cur))
    ELSE SplitAcc(Tail(s), sep, Append(cur, Head(s)), parts)

\* The token taken to be the whole header when it has no second part.
TokenOf_WholeHeader(authHeader) ==
    LET parts == SplitAcc(authHeader, " ", <<>>, <<>>)
    IN IF Len(parts) >= 2 THEN parts[2] ELSE authHeader
\* authHeader.split(" ")[1]; the empty sequence stands for undefined and for
\* the empty string.
TokenOf(authHeader) ==
    LET parts == SplitAcc(authHeader, " ", <<>>, <<>>)
    IN IF Len(parts) >= 2 THEN parts[2] ELSE <<>>

\* admin.auth().verifyIdToken(token): the decoded token, or Null when the
\* call throws.
VerifyIdToken(token) ==
    IF token = <<"tok_a">> THEN [email |-> "a@x"]
    ELSE IF token = <<"tok_b">> THEN [email |-> "b@x"]
    ELSE Null

\* A protected route, verifyFBToken: the checks on the header.
verifyFBTokenHeader(p) ==
    \E authHeader \in Headers :
        /\ Free(p)
        /\ Arrive(p, [op |-> "verifyFBToken", headers |-> authHeader])
        /\ IF authHeader = NoHeader
           THEN Send(p, 401, Msg("unauthorized"))
           ELSE IF TokenOf(authHeader) = <<>>
           THEN Send(p, 401, Msg("unauthorized"))
           ELSE Goto(p, "auth_verify")
        /\ loc' = [loc EXCEPT ![p] = NoLoc]
        /\ UNCHANGED db

\* A protected route, verifyFBToken: verifyIdToken(token), then next().
verifyFBTokenVerify(p) ==
    /\ pc[p] = "auth_verify"
    /\ LET decoded == VerifyIdToken(TokenOf(req[p].headers))
       IN IF decoded = Null
          THEN /\ Send(p, 401, Msg("unauthorized"))
               /\ UNCHANGED req
          ELSE /\ Goto(p, "verified")
               /\ req' = [req EXCEPT ![p] = SetFields(@, [decoded |-> decoded])]
    /\ UNCHANGED <<db, nreq, loc>>

\* ------------------------------------------------- getDB, getCollections
\* GET /users/:email in a process whose connection may not be up yet. Each
\* action is one run of the event loop: the code between two awaits.

\* getDB without the test of globalCache.promise.
getDB_NoPromiseTest(p) ==
    \E email \in Emails :
        /\ Arrive(p, [op |-> "getUserByEmail", target |-> email])
        /\ IF globalCache.db # 0
           THEN /\ loc' = [loc EXCEPT ![p] = [database |-> globalCache.db]]
                /\ Goto(p, "user_find")
                /\ UNCHANGED <<globalCache, attempts>>
           ELSE /\ attempts' = Append(attempts, "pending")
                /\ globalCache' = [globalCache EXCEPT !.promise = Len(attempts) + 1]
                /\ loc' = [loc EXCEPT ![p] = [awaits |-> Len(attempts) + 1]]
                /\ Goto(p, "await_db")
        /\ UNCHANGED <<db, pre, prev>>
\* getCollections() calls getDB(): the cached handle, the cached promise, or
\* a new attempt, whose client is constructed and whose connect is issued
\* before getDB returns its promise.
getDB(p) ==
    \E email \in Emails :
        /\ Arrive(p, [op |-> "getUserByEmail", target |-> email])
        /\ IF globalCache.db # 0
           THEN /\ loc' = [loc EXCEPT ![p] = [database |-> globalCache.db]]
                /\ Goto(p, "user_find")
                /\ UNCHANGED <<globalCache, attempts>>
           ELSE IF globalCache.promise # 0
           THEN /\ loc' = [loc EXCEPT ![p] = [awaits |-> globalCache.promise]]
                /\ Goto(p, "await_db")
                /\ UNCHANGED <<globalCache, attempts>>
           ELSE /\ attempts' = Append(attempts, "pending")
                /\ globalCache' = [globalCache EXCEPT !.promise = Len(attempts) + 1]
                /\ loc' = [loc EXCEPT ![p] = [awaits |-> Len(attempts) + 1]]
                /\ Goto(p, "await_db")
        /\ UNCHANGED <<db, pre, prev>>

\* await client.connect() returns: the attempt stores its client and its
\* handle in the cache and fulfils its promise with the handle.
connectResolve ==
    \E k \in 1..Len(attempts) :
        /\ attempts[k] = "pending"
        /\ attempts' = [attempts EXCEPT ![k] = "fulfilled"]
        /\ globalCache' = [globalCache EXCEPT !.client = k, !.db = k]
        /\ UNCHANGED <<db, nreq, pc, req, loc, resp, pre, prev>>

\* A failed attempt that takes its promise out of the cache.
connectReject_ClearsPromise ==
    \E k \in 1..Len(attempts) :
        /\ attempts[k] = "pending"
        /\ attempts' = [attempts EXCEPT ![k] = "rejected"]
        /\ globalCache' = [globalCache EXCEPT !.promise = 0]
        /\ UNCHANGED <<db, nreq, pc, req, loc, resp, pre, prev>>
\* await client.connect() throws: the attempt's promise is rejected.
connectReject ==
    \E k \in 1..Len(attempts) :
        /\ attempts[k] = "pending"
        /\ attempts' = [attempts EXCEPT ![k] = "rejected"]
        /\ UNCHANGED <<globalCache, db, nreq, pc, req, loc, resp, pre, prev>>

\* const database = await getDB(): the handle, or the error, which
\* asyncHandler passes to errorHandler.
getCollections(p) ==
    /\ pc[p] = "await_db"
    /\ attempts[loc[p].awaits] # "pending"
    /\ IF attempts[loc[p].awaits] = "fulfilled"
       THEN /\ loc' = [loc EXCEPT ![p] = [database |-> loc[p].awaits]]
            /\ Goto(p, "user_find")
       ELSE /\ loc' = [loc EXCEPT ![p] = NoLoc]
            /\ Send(p, 500, Msg("Server error"))
    /\ UNCHANGED <<db, nreq, req, globalCache, attempts, pre, prev>>

\* GET /users/:email: findOne({email}) on the handle's users collection,
\* res.send(user || {}).
getUserByEmail(p) ==
    /\ pc[p] = "user_find"
    /\ LET user == FindOne(UsersWithEmail(users, req[p].target))
       IN Send(p, 200, IF user = Null THEN NoQuery ELSE user)
    /\ UNCHANGED <<db, nreq, req, loc, globalCache, attempts, pre, prev>>

\* ------------------------------------------------------- stored lessons
\* Largest number of lessons in a store the listings are run against.
MaxStored == 13

StoreShapes == {"public", "mixed"}

\* The i-th lesson of a store: as createLesson inserted it, then saved,
\* featured, hidden or soft-deleted by later requests. In a mixed store every
\* third lesson is private and every fourth is deleted.
StoredLesson(i, shape) ==
    SetFields(
        LessonDoc(i, [title |-> IF i % 2 = 0 THEN <<"A", "b">> ELSE <<"c">>,
                      shortDescription |-> <<"c", "c">>,
                      category |-> IF i % 2 = 0 THEN "Career" ELSE "",
                      emotionalTone |-> IF i % 3 = 1 THEN "Calm" ELSE ""],
                  IF i % 2 = 0 THEN "a@x" ELSE "b@x", Null),
        [createdAt |-> i, updatedAt |-> i,
         visibility |-> IF shape = "mixed" /\ i % 3 = 0 THEN "private" ELSE "public",
         isDeleted |-> shape = "mixed" /\ i % 4 = 0,
         isFeatured |-> shape = "mixed" \/ i % 5 # 0,
         savedCount |-> IF i % 3 = 0 THEN 2 ELSE i % 2])

Store(n, shape) == {StoredLesson(i, shape) : i \in 1..n}

\* ---------------------------------------------------------- specifications
\* The store a deployment starts from when only ordinary accounts and one
\* administrator have signed in.
DefaultUsers == {UserDoc("a@x", "user"), UserDoc("b@x", "admin")}

InitDefault == Init /\ users = DefaultUsers

\* A deployment that already holds lessons.
ListInit ==
    /\ nreq = 0
    /\ users = DefaultUsers
    /\ lessons \in {Store(n, shape) : n \in 0..MaxStored, shape \in StoreShapes}
    /\ favorites = {}
    /\ nextId = MaxStored + 1
    /\ pc = [p \in Procs |-> "idle"]
    /\ req = [p \in Procs |-> NoReq]
    /\ loc = [p \in Procs |-> NoLoc]
    /\ resp = [p \in Procs |-> NoResp]
    /\ globalCache = WarmCache
    /\ attempts = <<"fulfilled">>
    /\ pre = Null
    /\ prev = NoReq

\* A process that has just started.
ColdInit ==
    /\ users \in SeedUsers
    /\ lessons = {}
    /\ favorites = {}
    /\ nextId = 1
    /\ nreq = 0
    /\ pc = [p \in Procs |-> "idle"]
    /\ req = [p \in Procs |-> NoReq]
    /\ loc = [p \in Procs |-> NoLoc]
    /\ resp = [p \in Procs |-> NoResp]
    /\ globalCache = ColdCache
    /\ attempts = <<>>
    /\ pre = Null
    /\ prev = NoReq

\* getCollections() in a handler step once the connection is up: getDB
\* returns globalCache.db and leaves the cache as it is.
Warm == UNCHANGED <<globalCache, attempts>>

\* History kept for the claims about consecutive requests: when a request
\* arrives in slot p, remember the store it finds and the request that
\* completed in the slot before it.
Observe(p) ==
    /\ Warm
    /\ IF Free(p)
       THEN /\ pre' = [users |-> users, lessons |-> lessons, favorites |-> favorites]
            /\ prev' = IF pc[p] = "done"
                       THEN [op |-> req[p].op, req |-> req[p], resp |-> resp[p],
                             pre |-> pre]
                       ELSE NoReq
       ELSE UNCHANGED <<pre, prev>>

\* The same, remembering only the store the request finds.
ObservePre(p) ==
    /\ Warm
    /\ IF Free(p)
       THEN /\ pre' = [users |-> users, lessons |-> lessons, favorites |-> favorites]
            /\ UNCHANGED prev
       ELSE UNCHANGED <<pre, prev>>

\* The slot that serves every request when requests do not overlap.
SeqProc == CHOOSE p \in Procs : \A q \in Procs : p <= q

\* Steps of overlapping requests leave the history variables alone.
Unobserved == Warm /\ UNCHANGED <<pre, prev>>

\* Requests of any clients, interleaved at every awaited database call.
LikesNext ==
    \E p \in Procs :
        \/ createLessonFindUser(p) /\ Unobserved
        \/ createLessonInsert(p) /\ Unobserved
        \/ toggleLikeFind(p) /\ Unobserved
        \/ toggleLikeUpdate(p) /\ Unobserved
        \/ toggleLikeRespond(p) /\ Unobserved
        \/ deleteMyLessonFind(p) /\ Unobserved
        \/ deleteMyLessonWrite(p) /\ Unobserved

FavNext ==
    \E p \in Procs :
        \/ createLessonFindUser(p) /\ Unobserved
        \/ createLessonInsert(p) /\ Unobserved
        \/ addFavoriteFind(p) /\ Unobserved
        \/ addFavoriteInsert(p) /\ Unobserved
        \/ addFavoriteInc(p) /\ Unobserved
        \/ removeFavoriteFind(p) /\ Unobserved
        \/ removeFavoriteDelete(p) /\ Unobserved
        \/ removeFavoriteDec(p) /\ Unobserved

AccessNext ==
    \E p \in Procs :
        \/ createLessonFindUser(p) /\ Unobserved
        \/ createLessonInsert(p) /\ Unobserved
        \/ ownerGuardFindLesson(p) /\ Unobserved
        \/ ownerGuardFindUser(p) /\ Unobserved
        \/ updateLessonWrite(p) /\ Unobserved
        \/ deleteMyLessonFind(p) /\ Unobserved
        \/ deleteMyLessonWrite(p) /\ Unobserved
        \/ verifyAdmin(p) /\ Unobserved
        \/ adminDeleteLesson(p) /\ Unobserved

\* One request at a time: each request completes before the next arrives.
SeqLikesNext ==
    \/ createLessonFindUser(SeqProc) /\ Observe(SeqProc)
    \/ createLessonInsert(SeqProc) /\ Observe(SeqProc)
    \/ toggleLikeFind(SeqProc) /\ Observe(SeqProc)
    \/ toggleLikeUpdate(SeqProc) /\ Observe(SeqProc)
    \/ toggleLikeRespond(SeqProc) /\ Observe(SeqProc)
    \/ deleteMyLessonFind(SeqProc) /\ Observe(SeqProc)
    \/ deleteMyLessonWrite(SeqProc) /\ Observe(SeqProc)

SeqFavNext ==
    \/ createLessonFindUser(SeqProc) /\ Observe(SeqProc)
    \/ createLessonInsert(SeqProc) /\ Observe(SeqProc)
    \/ addFavoriteFind(SeqProc) /\ Observe(SeqProc)
    \/ addFavoriteInsert(SeqProc) /\ Observe(SeqProc)
    \/ addFavoriteInc(SeqProc) /\ Observe(SeqProc)
    \/ removeFavoriteFind(SeqProc) /\ Observe(SeqProc)
    \/ removeFavoriteDelete(SeqProc) /\ Observe(SeqProc)
    \/ removeFavoriteDec(SeqProc) /\ Observe(SeqProc)

SeqAccessNext ==
    \/ createLessonFindUser(SeqProc) /\ Observe(SeqProc)
    \/ createLessonInsert(SeqProc) /\ Observe(SeqProc)
    \/ ownerGuardFindLesson(SeqProc) /\ Observe(SeqProc)
    \/ ownerGuardFindUser(SeqProc) /\ Observe(SeqProc)
    \/ updateLessonWrite(SeqProc) /\ Observe(SeqProc)
    \/ deleteMyLessonFind(SeqProc) /\ Observe(SeqProc)
    \/ deleteMyLessonWrite(SeqProc) /\ Observe(SeqProc)
    \/ verifyAdmin(SeqProc) /\ Observe(SeqProc)
    \/ adminDeleteLesson(SeqProc) /\ Observe(SeqProc)

\* Lessons created, premium bought and lesson details read, one at a time.
SeqDetailsNext ==
    \/ createLessonFindUser(SeqProc) /\ Observe(SeqProc)
    \/ createLessonInsert(SeqProc) /\ Observe(SeqProc)
    \/ paymentSuccessRetrieve(SeqProc) /\ Observe(SeqProc)
    \/ paymentSuccessUpsert(SeqProc) /\ Observe(SeqProc)
    \/ lessonDetailsFind(SeqProc) /\ Observe(SeqProc)
    \/ lessonDetailsPremium(SeqProc) /\ Observe(SeqProc)

\* Lessons created, saved, liked, soft-deleted, read and hard-deleted, one
\* request at a time.
SeqDeletedNext ==
    \/ createLessonFindUser(SeqProc) /\ ObservePre(SeqProc)
    \/ createLessonInsert(SeqProc) /\ ObservePre(SeqProc)
    \/ addFavoriteFind(SeqProc) /\ ObservePre(SeqProc)
    \/ addFavoriteInsert(SeqProc) /\ ObservePre(SeqProc)
    \/ addFavoriteInc(SeqProc) /\ ObservePre(SeqProc)
    \/ deleteMyLessonFind(SeqProc) /\ ObservePre(SeqProc)
    \/ deleteMyLessonWrite(SeqProc) /\ ObservePre(SeqProc)
    \/ verifyAdmin(SeqProc) /\ ObservePre(SeqProc)
    \/ adminDeleteLesson(SeqProc) /\ ObservePre(SeqProc)
    \/ lessonDetailsFind(SeqProc) /\ ObservePre(SeqProc)
    \/ lessonDetailsPremium(SeqProc) /\ ObservePre(SeqProc)
    \/ toggleLikeFind(SeqProc) /\ ObservePre(SeqProc)
    \/ toggleLikeUpdate(SeqProc) /\ ObservePre(SeqProc)
    \/ toggleLikeRespond(SeqProc) /\ ObservePre(SeqProc)
    \/ myLessons(SeqProc) /\ ObservePre(SeqProc)
    \/ listFavorites(SeqProc) /\ ObservePre(SeqProc)
    \/ adminLessonsRawGuard(SeqProc) /\ ObservePre(SeqProc)
    \/ adminLessonsRaw(SeqProc) /\ ObservePre(SeqProc)
    \/ adminLessonsListGuard(SeqProc) /\ ObservePre(SeqProc)
    \/ adminLessonsListCounts(SeqProc) /\ ObservePre(SeqProc)
    \/ adminLessonsListAggregate(SeqProc) /\ ObservePre(SeqProc)
    \/ adminLessonsListRespond(SeqProc) /\ ObservePre(SeqProc)
    \/ hardDeleteLessonGuard(SeqProc) /\ ObservePre(SeqProc)
    \/ hardDeleteLesson(SeqProc) /\ ObservePre(SeqProc)

\* Roles changed by admins and admin-guarded routes called, one request at
\* a time.
SeqRolesNext ==
    \/ makeAdminGuard(SeqProc) /\ Observe(SeqProc)
    \/ makeAdmin(SeqProc) /\ Observe(SeqProc)
    \/ updateUserRoleGuard(SeqProc) /\ Observe(SeqProc)
    \/ updateUserRoleFind(SeqProc) /\ Observe(SeqProc)
    \/ updateUserRoleWrite(SeqProc) /\ Observe(SeqProc)
    \/ verifyAdmin(SeqProc) /\ Observe(SeqProc)
    \/ adminDeleteLesson(SeqProc) /\ Observe(SeqProc)
    \/ hardDeleteLessonGuard(SeqProc) /\ Observe(SeqProc)
    \/ hardDeleteLesson(SeqProc) /\ Observe(SeqProc)
    \/ adminLessonsRawGuard(SeqProc) /\ Observe(SeqProc)
    \/ adminLessonsRaw(SeqProc) /\ Observe(SeqProc)

\* Sign-ins and payment confirmations, one request at a time.
SeqUsersNext ==
    \/ upsertUser(SeqProc) /\ ObservePre(SeqProc)
    \/ paymentSuccessRetrieve(SeqProc) /\ ObservePre(SeqProc)
    \/ paymentSuccessUpsert(SeqProc) /\ ObservePre(SeqProc)

\* Every route that writes an existing lesson. One slot serves all of them;
\* the soft-delete and hard-delete routes are served by every slot, so that
\* a deletion can fall between any two steps of another request; the store
\* remembered is the one the first slot's request found.
LessonWritesNext ==
    \/ createLessonFindUser(SeqProc) /\ ObservePre(SeqProc)
    \/ createLessonInsert(SeqProc) /\ ObservePre(SeqProc)
    \/ ownerGuardFindLesson(SeqProc) /\ ObservePre(SeqProc)
    \/ ownerGuardFindUser(SeqProc) /\ ObservePre(SeqProc)
    \/ updateLessonWrite(SeqProc) /\ ObservePre(SeqProc)
    \/ toggleLessonVisibilityGuard(SeqProc) /\ ObservePre(SeqProc)
    \/ toggleLessonVisibilityFind(SeqProc) /\ ObservePre(SeqProc)
    \/ toggleLessonVisibilityWrite(SeqProc) /\ ObservePre(SeqProc)
    \/ setFlagGuard(SeqProc) /\ ObservePre(SeqProc)
    \/ setFeatured(SeqProc) /\ ObservePre(SeqProc)
    \/ setReviewed(SeqProc) /\ ObservePre(SeqProc)
    \/ toggleLikeFind(SeqProc) /\ ObservePre(SeqProc)
    \/ toggleLikeUpdate(SeqProc) /\ ObservePre(SeqProc)
    \/ toggleLikeRespond(SeqProc) /\ ObservePre(SeqProc)
    \/ addFavoriteFind(SeqProc) /\ ObservePre(SeqProc)
    \/ addFavoriteInsert(SeqProc) /\ ObservePre(SeqProc)
    \/ addFavoriteInc(SeqProc) /\ ObservePre(SeqProc)
    \/ \E p \in Procs : deleteMyLessonFind(p) /\ Unobserved
    \/ \E p \in Procs : deleteMyLessonWrite(p) /\ Unobserved
    \/ \E p \in Procs : verifyAdmin(p) /\ Unobserved
    \/ \E p \in Procs : adminDeleteLesson(p) /\ Unobserved
    \/ \E p \in Procs : hardDeleteLessonGuard(p) /\ Unobserved
    \/ \E p \in Procs : hardDeleteLesson(p) /\ Unobserved

\* The two self-only reads, among lesson creations and role changes, one
\* request at a time.
SeqSelfNext ==
    \/ createLessonFindUser(SeqProc) /\ ObservePre(SeqProc)
    \/ createLessonInsert(SeqProc) /\ ObservePre(SeqProc)
    \/ makeAdminGuard(SeqProc) /\ ObservePre(SeqProc)
    \/ makeAdmin(SeqProc) /\ ObservePre(SeqProc)
    \/ myLessons(SeqProc) /\ ObservePre(SeqProc)
    \/ checkAdminSelf(SeqProc) /\ ObservePre(SeqProc)

\* Every route that writes the users collection, one request at a time.
SeqAccountsNext ==
    \/ upsertUser(SeqProc) /\ Observe(SeqProc)
    \/ paymentSuccessRetrieve(SeqProc) /\ Observe(SeqProc)
    \/ paymentSuccessUpsert(SeqProc) /\ Observe(SeqProc)
    \/ deleteUserGuard(SeqProc) /\ Observe(SeqProc)
    \/ deleteUserByEmail(SeqProc) /\ Observe(SeqProc)
    \/ makeAdminGuard(SeqProc) /\ Observe(SeqProc)
    \/ makeAdmin(SeqProc) /\ Observe(SeqProc)
    \/ updateUserRoleGuard(SeqProc) /\ Observe(SeqProc)
    \/ updateUserRoleFind(SeqProc) /\ Observe(SeqProc)
    \/ updateUserRoleWrite(SeqProc) /\ Observe(SeqProc)

\* Sign-ins, payment confirmations and account deletions, their requests
\* overlapping.
UsersNext ==
    \E p \in Procs :
        \/ upsertUser(p) /\ Unobserved
        \/ paymentSuccessRetrieve(p) /\ Unobserved
        \/ paymentSuccessUpsert(p) /\ Unobserved
        \/ deleteUserGuard(p) /\ Unobserved
        \/ deleteUserByEmail(p) /\ Unobserved

\* The admin routes that change or remove accounts, their requests overlapping.
AdminsNext ==
    \E p \in Procs :
        \/ deleteUserGuard(p) /\ Unobserved
        \/ deleteUserByEmail(p) /\ Unobserved
        \/ makeAdminGuard(p) /\ Unobserved
        \/ makeAdmin(p) /\ Unobserved
        \/ updateUserRoleGuard(p) /\ Unobserved
        \/ updateUserRoleFind(p) /\ Unobserved
        \/ updateUserRoleWrite(p) /\ Unobserved

\* Requests that need the database, from the start of the process.
GetDBNext ==
    \/ \E p \in Procs : getDB(p)
    \/ connectResolve
    \/ connectReject
    \/ \E p \in Procs : getCollections(p)
    \/ \E p \in Procs : getUserByEmail(p)

\* Requests to protected routes from their Authorization header on, one at
\* a time: each route is entered only through verifyFBToken.
SeqAuthNext ==
    \/ verifyFBTokenHeader(SeqProc) /\ ObservePre(SeqProc)
    \/ verifyFBTokenVerify(SeqProc) /\ ObservePre(SeqProc)
    \/ ~Free(SeqProc) /\ createLessonFindUser(SeqProc) /\ ObservePre(SeqProc)
    \/ createLessonInsert(SeqProc) /\ ObservePre(SeqProc)
    \/ ~Free(SeqProc) /\ deleteMyLessonFind(SeqProc) /\ ObservePre(SeqProc)
    \/ deleteMyLessonWrite(SeqProc) /\ ObservePre(SeqProc)
    \/ ~Free(SeqProc) /\ verifyAdmin(SeqProc) /\ ObservePre(SeqProc)
    \/ adminDeleteLesson(SeqProc) /\ ObservePre(SeqProc)
    \/ ~Free(SeqProc) /\ myLessons(SeqProc) /\ ObservePre(SeqProc)

\* The three public listings, one request at a time.
ListNext ==
    \/ publicLessonsFind(SeqProc) /\ Unobserved
    \/ publicLessonsCount(SeqProc) /\ Unobserved
    \/ featuredLessons(SeqProc) /\ Unobserved
    \/ mostSavedLessons(SeqProc) /\ Unobserved

Next == LikesNext \/ FavNext \/ AccessNext

Spec == Init /\ [][Next]_vars
LikesSpec == InitDefault /\ [][LikesNext]_vars
FavSpec == InitDefault /\ [][FavNext]_vars
AccessSpec == Init /\ [][AccessNext]_vars
SeqLikesSpec == InitDefault /\ [][SeqLikesNext]_vars
SeqFavSpec == InitDefault /\ [][SeqFavNext]_vars
SeqAccessSpec == Init /\ [][SeqAccessNext]_vars
SeqDetailsSpec == Init /\ [][SeqDetailsNext]_vars
ListSpec == ListInit /\ [][ListNext]_vars
SeqDeletedSpec == InitDefault /\ [][SeqDeletedNext]_vars
SeqRolesSpec == Init /\ [][SeqRolesNext]_vars
SeqUsersSpec == Init /\ [][SeqUsersNext]_vars
SeqAuthSpec == Init /\ [][SeqAuthNext]_vars
SeqAccountsSpec == Init /\ [][SeqAccountsNext]_vars
UsersSpec == Init /\ [][UsersNext]_vars
AdminsSpec == Init /\ [][AdminsNext]_vars
SeqSelfSpec == Init /\ [][SeqSelfNext]_vars
LessonWritesSpec == InitDefault /\ [][LessonWritesNext]_vars
GetDBSpec == ColdInit /\ [][GetDBNext]_vars

\* ------------------------------------------------------------------ claims
LessonById(coll, id) == FindOne(ById(coll, id))
FavoritesOf(coll, lessonId) == {f \in coll : f.lessonId = lessonId}
InFavoriteRequest(p) == pc[p] \in {"fav_insert", "fav_inc", "rm_delete", "rm_dec"}

\* C1: in every reachable state every lesson's likesCount equals the number
\* of emails in its likes array, whatever the interleaving of toggle-like
\* requests.
C1_LikesCountIsLength ==
    \A d \in lessons : d.likesCount = Len(d.likes)

\* C2: in every reachable state a lesson's likes array holds any email at
\* most once, for any interleaving of toggle-like requests.
C2_LikesNoDuplicates ==
    \A d \in lessons :
        \A i, j \in 1..Len(d.likes) : i # j => d.likes[i] # d.likes[j]

\* Two toggles by the same user both took the $addToSet branch on one lesson.
C2_Witness ==
    \E d \in lessons : \E p, q \in Procs :
        /\ p # q
        /\ pc[p] = "done" /\ pc[q] = "done"
        /\ req[p].op = "toggleLike" /\ req[q].op = "toggleLike"
        /\ req[p].id = d._id /\ req[q].id = d._id
        /\ req[p].email = req[q].email
        /\ resp[p].status = 200 /\ resp[q].status = 200
        /\ resp[p].body.liked /\ resp[q].body.liked
        /\ d.likesCount = 2
        /\ d.likes = <<req[p].email>>

\* The latest two completed requests are successful toggle-likes of one
\* lesson by one user, with nothing in between.
TwoTogglesDone ==
    /\ pc[SeqProc] = "done"
    /\ req[SeqProc].op = "toggleLike"
    /\ prev.op = "toggleLike"
    /\ prev.resp.status = 200
    /\ prev.req.email = req[SeqProc].email
    /\ prev.req.id = req[SeqProc].id

\* C3: two consecutive toggle-likes by one user on a non-deleted lesson
\* restore that user's membership in likes and the likesCount; the first
\* response reports liked = not previously liked, the second the opposite,
\* each with the likesCount stored after its write.
C3_ToggleTwiceRestores ==
    TwoTogglesDone =>
        LET u == req[SeqProc].email
            before == LessonById(prev.pre.lessons, req[SeqProc].id)
            between == LessonById(pre.lessons, req[SeqProc].id)
            after == LessonById(lessons, req[SeqProc].id)
        IN /\ resp[SeqProc].status = 200
           /\ Includes(after.likes, u) = Includes(before.likes, u)
           /\ after.likesCount = before.likesCount
           /\ prev.resp.body.liked = ~Includes(before.likes, u)
           /\ resp[SeqProc].body.liked = ~prev.resp.body.liked
           /\ prev.resp.body.likesCount = between.likesCount
           /\ resp[SeqProc].body.likesCount = after.likesCount

\* A like followed by an unlike of a lesson another user also likes.
C3_Witness ==
    /\ TwoTogglesDone
    /\ ~resp[SeqProc].body.liked
    /\ resp[SeqProc].body.likesCount = 1

\* C4: in every reachable state there is at most one Favorite document per
\* (lessonId, userEmail) pair, also when two add-favorite requests for the
\* pair interleave.
C4_OneFavoritePerPair ==
    \A f, g \in favorites :
        (f.lessonId = g.lessonId /\ f.userEmail = g.userEmail) => f = g

\* The latest completed request is an add-favorite, with a valid lessonId,
\* for a pair that had a Favorite document when the request arrived.
DuplicateAddDone ==
    /\ pc[SeqProc] = "done"
    /\ req[SeqProc].op = "addFavorite"
    /\ ObjectIdIsValid(req[SeqProc].id)
    /\ \E f \in pre.favorites :
           f.lessonId = req[SeqProc].id /\ f.userEmail = req[SeqProc].email

\* The latest two completed requests are add-favorites of one lesson by one
\* user, the first of them successful.
TwoAddsDone ==
    /\ pc[SeqProc] = "done"
    /\ req[SeqProc].op = "addFavorite"
    /\ prev.op = "addFavorite"
    /\ prev.resp.status = 200
    /\ prev.req.email = req[SeqProc].email
    /\ prev.req.id = req[SeqProc].id

\* C5: an add-favorite for a pair that already has a Favorite responds 400
\* "Already in favorites" and changes nothing; two sequential adds of one
\* lesson by one user leave savedCount increased by exactly 1.
C5_DuplicateAddRejected ==
    /\ DuplicateAddDone =>
           /\ resp[SeqProc].status = 400
           /\ resp[SeqProc].body = Msg("Already in favorites")
           /\ favorites = pre.favorites
           /\ lessons = pre.lessons
    /\ TwoAddsDone =>
           \A d \in lessons :
               d._id = req[SeqProc].id =>
                   d.savedCount =
                       LessonById(prev.pre.lessons, d._id).savedCount + 1

\* The second of two sequential adds of an existing lesson was answered.
C5_Witness ==
    /\ DuplicateAddDone
    /\ TwoAddsDone
    /\ \E d \in lessons : d._id = req[SeqProc].id /\ d.savedCount = 1

\* C6: in every reachable state every lesson's savedCount is >= 0, for any
\* interleaving of add-favorite and remove-favorite requests.
C6_SavedCountNonNegative ==
    \A d \in lessons : d.savedCount >= 0

\* Two overlapping removes of one favorite both ran their decrement on a
\* lesson whose savedCount was 1: the second found it already 0.
C6_Witness ==
    \E p, q \in Procs : \E d \in lessons :
        /\ p # q
        /\ pc[p] = "done" /\ pc[q] = "done"
        /\ req[p].op = "removeFavorite" /\ req[q].op = "removeFavorite"
        /\ req[p].id = req[q].id
        /\ resp[p].status = 200 /\ resp[q].status = 200
        /\ loc[p].fav.lessonId = d._id
        /\ resp[p].body.deletedCount = 1 /\ resp[q].body.deletedCount = 0
        /\ nreq = 4
        /\ d.savedCount = 0
        /\ FavoritesOf(favorites, d._id) = {}

\* The latest two completed requests are a successful add-favorite on an
\* existing lesson and the successful removal of the favorite it created.
AddThenRemoveDone ==
    /\ pc[SeqProc] = "done"
    /\ req[SeqProc].op = "removeFavorite"
    /\ resp[SeqProc].status = 200
    /\ prev.op = "addFavorite"
    /\ prev.resp.status = 200
    /\ req[SeqProc].id = prev.resp.body.insertedId
    /\ ById(prev.pre.lessons, prev.req.id) # {}

\* C7: add-favorite followed immediately by remove-favorite of the created
\* favorite leaves the lesson's savedCount and the set of Favorite documents
\* as they were before the add.
C7_AddThenRemoveRestores ==
    AddThenRemoveDone =>
        /\ favorites = prev.pre.favorites
        /\ LessonById(lessons, prev.req.id).savedCount =
               LessonById(prev.pre.lessons, prev.req.id).savedCount

\* The pair ran on a lesson whose savedCount was 0 before the add.
C7_Witness ==
    /\ AddThenRemoveDone
    /\ LessonById(prev.pre.lessons, prev.req.id).savedCount = 0
    /\ LessonById(pre.lessons, prev.req.id).savedCount = 1

\* C8: whenever no add-favorite or remove-favorite request is in progress,
\* every lesson's savedCount equals the number of Favorite documents that
\* reference it.
C8_SavedCountMatchesFavorites ==
    (\A p \in Procs : ~InFavoriteRequest(p)) =>
        \A d \in lessons :
            d.savedCount = Cardinality(FavoritesOf(favorites, d._id))

\* The latest completed request is a remove-favorite with a valid id.
RemoveDone ==
    /\ pc[SeqProc] = "done"
    /\ req[SeqProc].op = "removeFavorite"
    /\ ObjectIdIsValid(req[SeqProc].id)

FavoriteAbsent == ById(pre.favorites, req[SeqProc].id) = {}
FavoriteOfAnother ==
    \E f \in ById(pre.favorites, req[SeqProc].id) :
        f.userEmail # req[SeqProc].email

StrangerRequestDone ==
    /\ pc[SeqProc] = "done"
    /\ req[SeqProc].op \in {"updateLesson", "deleteMyLesson", "adminDeleteLesson"}
    /\ \E d \in pre.lessons :
           /\ d._id = req[SeqProc].id
           /\ d.isDeleted # TRUE
           /\ d.creatorEmail # req[SeqProc].email
    /\ \A u \in pre.users : u.email = req[SeqProc].email => u.role # "admin"

\* C10: PATCH /lessons/:id, DELETE /lessons/my/:id and DELETE /lessons/:id
\* by a principal who is neither the lesson's creator nor an admin respond
\* 403 and leave the lesson document unchanged.
C10_StrangerForbidden ==
    StrangerRequestDone =>
        /\ resp[SeqProc].status = 403
        /\ lessons = pre.lessons

\* An update by a principal with an ordinary User document was refused.
C10_Witness ==
    /\ StrangerRequestDone
    /\ req[SeqProc].op = "updateLesson"
    /\ \E u \in users : u.email = req[SeqProc].email /\ u.role = "user"

\* The latest completed request is a detail fetch of a lesson that existed,
\* not deleted, when the request arrived.
DetailsDone ==
    /\ pc[SeqProc] = "done"
    /\ req[SeqProc].op = "lessonDetails"
    /\ NotDeleted(ById(pre.lessons, req[SeqProc].id)) # {}

HasPremium(coll, email) ==
    \E u \in coll : u.email = email /\ "isPremium" \in DOMAIN u /\ u.isPremium = TRUE

\* C11: a detail fetch of a non-deleted premium lesson returns the lesson to
\* its creator and to a requester whose User document has isPremium = true,
\* and responds 403 to every other requester, admins included; a non-premium
\* lesson is returned to any authenticated requester.
C11_PremiumGate ==
    DetailsDone =>
        LET d == LessonById(pre.lessons, req[SeqProc].id)
            email == req[SeqProc].email
        IN IF \/ d.accessLevel # "premium"
              \/ d.creatorEmail = email
              \/ HasPremium(pre.users, email)
           THEN resp[SeqProc].status = 200 /\ resp[SeqProc].body = d
           ELSE resp[SeqProc].status = 403

\* A premium lesson was returned to a paying user who did not create it.
C11_Witness ==
    /\ DetailsDone
    /\ resp[SeqProc].status = 200
    /\ resp[SeqProc].body.accessLevel = "premium"
    /\ resp[SeqProc].body.creatorEmail # req[SeqProc].email
    /\ HasPremium(users, req[SeqProc].email)

\* The latest completed request is a listing.
ListingDone ==
    /\ pc[SeqProc] = "done"
    /\ req[SeqProc].op \in {"publicLessons", "featuredLessons", "mostSavedLessons"}

Listed == resp[SeqProc].body.lessons

\* C12: no lesson with visibility = private or isDeleted = true appears in
\* the result of the public, featured or most-saved listing, whatever the
\* query; featured returns only lessons with isFeatured = true; featured and
\* most-saved return at most 6 lessons.
C12_ListingsExcludeHidden ==
    ListingDone =>
        /\ \A i \in 1..Len(Listed) :
               /\ Listed[i] \in lessons
               /\ Listed[i].visibility # "private"
               /\ Listed[i].isDeleted # TRUE
               /\ req[SeqProc].op = "featuredLessons" => Listed[i].isFeatured = TRUE
        /\ req[SeqProc].op \in {"featuredLessons", "mostSavedLessons"} =>
               Len(Listed) <= 6

\* The most-saved listing returned 6 lessons from a store whose most saved
\* lessons are private or deleted.
C12_Witness ==
    /\ ListingDone
    /\ req[SeqProc].op = "mostSavedLessons"
    /\ Len(Listed) = 6
    /\ \E d \in lessons : d.visibility = "private" /\ d.savedCount > Listed[1].savedCount
    /\ \E d \in lessons : d.isDeleted = TRUE /\ d.visibility = "public"
                             /\ d.savedCount >= Listed[6].savedCount

\* The latest completed request is a public listing whose page and limit,
\* when sent, are decimal integers or hold no digit at all.
Numeric(s) == \A i \in 1..Len(s) : s[i] \in DOMAIN Digit \/ (i = 1 /\ s[i] = "-")
NonNumeric(s) == \A i \in 1..Len(s) : s[i] \notin DOMAIN Digit
PublicDone ==
    /\ pc[SeqProc] = "done"
    /\ req[SeqProc].op = "publicLessons"
    /\ \A f \in {"page", "limit"} \cap DOMAIN req[SeqProc].query :
           Numeric(req[SeqProc].query[f]) \/ NonNumeric(req[SeqProc].query[f])

\* The number a page or limit query value stands for: the integer it writes,
\* or dflt when it is absent, holds no digit or writes zero.
RECURSIVE Decimal(_)
Decimal(s) ==
    IF s = <<>> THEN 0
    ELSE IF Head(s) = "-" THEN 0 - Decimal(Tail(s))
    ELSE 10 * Decimal(SubSeq(s, 1, Len(s) - 1)) + Digit[s[Len(s)]]
Requested(query, f, dflt) ==
    IF f \notin DOMAIN query \/ NonNumeric(query[f]) THEN dflt
    ELSE IF Decimal(query[f]) = 0 THEN dflt
    ELSE Decimal(query[f])

CreateDone ==
    /\ pc[SeqProc] = "done"
    /\ req[SeqProc].op = "createLesson"
    /\ resp[SeqProc].status = 200

\* The latest completed request is a successful update of a lesson that
\* existed when the request arrived.
UpdateDone ==
    /\ pc[SeqProc] = "done"
    /\ req[SeqProc].op = "updateLesson"
    /\ resp[SeqProc].status = 200
    /\ ById(pre.lessons, req[SeqProc].id) # {}

UpdatableFields ==
    {"title", "shortDescription", "details", "category", "emotionalTone",
     "accessLevel", "visibility"}

\* C14: creatorEmail is set at creation to the verified principal's email,
\* never to one sent in the body, and no later request changes it; an update
\* changes only the allow-listed fields present in the body, plus updatedAt.
C14_CreatorImmutable ==
    /\ CreateDone =>
           LessonById(lessons, resp[SeqProc].body.insertedId).creatorEmail =
               req[SeqProc].email
    /\ pre # Null =>
           \A d \in lessons : \A e \in pre.lessons :
               d._id = e._id => d.creatorEmail = e.creatorEmail
    /\ UpdateDone =>
           LET before == LessonById(pre.lessons, req[SeqProc].id)
               after == LessonById(lessons, req[SeqProc].id)
               body == req[SeqProc].body
           IN /\ DOMAIN after = DOMAIN before
              /\ \A f \in DOMAIN before :
                     IF f \in UpdatableFields \cap DOMAIN body THEN after[f] = body[f]
                     ELSE f # "updatedAt" => after[f] = before[f]

\* An admin's update whose body names the admin as creator went through on
\* another user's lesson.
C14_Witness ==
    /\ UpdateDone
    /\ "creatorEmail" \in DOMAIN req[SeqProc].body
    /\ req[SeqProc].body.creatorEmail = req[SeqProc].email
    /\ LessonById(lessons, req[SeqProc].id).creatorEmail # req[SeqProc].email
    /\ LessonById(lessons, req[SeqProc].id).visibility = "private"
    /\ LessonById(pre.lessons, req[SeqProc].id).visibility = "public"

\* The latest completed request is a soft delete with a valid id that its
\* route's authorization lets through: any principal on the owner route for
\* a lesson that is absent or deleted, the creator for a live lesson, an
\* admin on the admin route.
SoftDeleteDone ==
    /\ pc[SeqProc] = "done"
    /\ req[SeqProc].op \in {"deleteMyLesson", "adminDeleteLesson"}
    /\ ObjectIdIsValid(req[SeqProc].id)
    /\ req[SeqProc].op = "adminDeleteLesson" =>
           \E u \in pre.users : u.email = req[SeqProc].email /\ u.role = "admin"
    /\ req[SeqProc].op = "deleteMyLesson" =>
           \A d \in NotDeleted(ById(pre.lessons, req[SeqProc].id)) :
               d.creatorEmail = req[SeqProc].email

\* C15: a soft delete by the owner or by an admin sets isDeleted = true on
\* an existing non-deleted lesson, and responds 404 without changing any
\* document when the lesson is absent or already deleted.
C15_SoftDeleteNotFound ==
    SoftDeleteDone =>
        IF NotDeleted(ById(pre.lessons, req[SeqProc].id)) # {}
        THEN LessonById(lessons, req[SeqProc].id).isDeleted = TRUE
        ELSE /\ resp[SeqProc].status = 404
             /\ lessons = pre.lessons
             /\ users = pre.users
             /\ favorites = pre.favorites

\* The latest request has completed; it found the lesson it names, if it
\* names one, soft-deleted.
Done(op) == pc[SeqProc] = "done" /\ req[SeqProc].op = op
NamesDeleted ==
    \E d \in ById(pre.lessons, req[SeqProc].id) : d.isDeleted = TRUE

NoneDeleted(listed) == \A i \in 1..Len(listed) : listed[i].isDeleted # TRUE

\* C16: a soft-deleted lesson is never returned by lesson detail (404),
\* my-lessons, the caller's favorites list, the admin raw listing or the
\* admin lessons list; a toggle-like on it responds 404 and leaves the
\* lesson unchanged; its document stays in the store until an admin
\* hard-delete by its id removes it, and hard-delete responds 404 only if no
\* document has that id.
C16_SoftDeletedInvisible ==
    /\ (Done("lessonDetails") /\ NamesDeleted) => resp[SeqProc].status = 404
    /\ (Done("toggleLike") /\ NamesDeleted) =>
           resp[SeqProc].status = 404 /\ lessons = pre.lessons
    /\ (Done("myLessons") /\ resp[SeqProc].status = 200) =>
           NoneDeleted(resp[SeqProc].body)
    /\ (Done("adminLessonsRaw") /\ resp[SeqProc].status = 200) =>
           NoneDeleted(resp[SeqProc].body)
    /\ (Done("adminLessonsList") /\ resp[SeqProc].status = 200) =>
           NoneDeleted(resp[SeqProc].body.lessons)
    /\ Done("listFavorites") =>
           \A i \in 1..Len(resp[SeqProc].body.favorites) :
               resp[SeqProc].body.favorites[i].lesson.isDeleted # TRUE
    /\ (pre # Null /\ ~Done("hardDeleteLesson")) =>
           \A d \in pre.lessons : d.isDeleted = TRUE => ById(lessons, d._id) # {}
    /\ (Done("hardDeleteLesson") /\ resp[SeqProc].status # 403
            /\ ObjectIdIsValid(req[SeqProc].id)) =>
           /\ ById(lessons, req[SeqProc].id) = {}
           /\ resp[SeqProc].status = 404 <=> ById(pre.lessons, req[SeqProc].id) = {}

\* The favorites list of a user whose only favorite is of a lesson that was
\* soft-deleted afterwards came back empty.
C16_Witness ==
    /\ Done("listFavorites")
    /\ resp[SeqProc].body.favorites = <<>>
    /\ \E f \in favorites : \E d \in lessons :
           /\ f.userEmail = req[SeqProc].email
           /\ f.lessonId = d._id
           /\ d.isDeleted = TRUE

\* The latest completed request is a role update by a principal who was an
\* admin when it arrived, with a well-formed user id.
RoleUpdateDone ==
    /\ Done("updateUserRole")
    /\ ObjectIdIsValid(req[SeqProc].id)
    /\ \E u \in pre.users : u.email = req[SeqProc].email /\ u.role = "admin"

RequestedRole == Param(req[SeqProc].body, "role", "")

\* C17: a role update by an admin responds 400 "You cannot demote yourself"
\* and changes nothing when the target is the caller and the requested role
\* is user; for every other existing target and role in {admin, user} it
\* succeeds and sets the target's role; a role outside {admin, user}
\* responds 400 and an absent target 404, both without any change.
C17_RoleUpdate ==
    RoleUpdateDone =>
        LET target == FindOne(ById(pre.users, req[SeqProc].id))
        IN IF RequestedRole \notin {"admin", "user"}
           THEN resp[SeqProc].status = 400 /\ users = pre.users
           ELSE IF target = Null
           THEN resp[SeqProc].status = 404 /\ users = pre.users
           ELSE IF target.email = req[SeqProc].email /\ RequestedRole = "user"
           THEN /\ resp[SeqProc].status = 400
                /\ resp[SeqProc].body = Msg("You cannot demote yourself")
                /\ users = pre.users
           ELSE /\ resp[SeqProc].status = 200
                /\ FindOne(ById(users, req[SeqProc].id)).role = RequestedRole
                /\ \A u \in pre.users :
                       u._id # req[SeqProc].id => u \in users

\* An admin who had been promoted by another admin asked for their own role
\* to be set to user and was refused.
C17_Witness ==
    /\ RoleUpdateDone
    /\ resp[SeqProc].status = 400
    /\ RequestedRole = "user"
    /\ FindOne(ById(users, req[SeqProc].id)).email = req[SeqProc].email
    /\ FindOne(ById(users, req[SeqProc].id)).role = "admin"
    /\ prev.op \in {"makeAdmin", "updateUserRole"}
    /\ prev.resp.status = 200
    /\ prev.req.id = req[SeqProc].id

AdminOps ==
    {"makeAdmin", "updateUserRole", "adminDeleteLesson", "hardDeleteLesson",
     "adminLessonsRaw"}
AdminHandlerLabels ==
    {"make_admin", "role_find", "role_write", "admdel_write", "hard_delete",
     "raw_find"}
WasAdmin == \E u \in pre.users : u.email = req[SeqProc].email /\ u.role = "admin"

\* C18: an admin-guarded route runs its handler only if, when the guard
\* executes, the principal's User document has role = admin; otherwise the
\* response is 403 and no document changes. The role is read from the store
\* on every request: a principal demoted to user is rejected on every later
\* admin-guarded request, a principal promoted to admin is accepted.
C18_AdminGuardReadsStore ==
    /\ pc[SeqProc] \in AdminHandlerLabels => WasAdmin
    /\ (pc[SeqProc] = "done" /\ req[SeqProc].op \in AdminOps) =>
           IF WasAdmin
           THEN resp[SeqProc].status # 403
           ELSE /\ resp[SeqProc].status = 403
                /\ users = pre.users
                /\ lessons = pre.lessons
                /\ favorites = pre.favorites

\* An admin was demoted by another admin and their next admin-guarded
\* request was refused.
C18_Witness ==
    /\ pc[SeqProc] = "done"
    /\ req[SeqProc].op \in AdminOps
    /\ resp[SeqProc].status = 403
    /\ prev.op = "updateUserRole"
    /\ prev.resp.status = 200
    /\ prev.req.body.role = "user"
    /\ \E u \in users : u._id = prev.req.id /\ u.email = req[SeqProc].email
    /\ \E u \in prev.pre.users : u._id = prev.req.id /\ u.role = "admin"

\* The latest completed request is a user upsert that names an email.
UpsertDone ==
    /\ Done("upsertUser")
    /\ "email" \in DOMAIN req[SeqProc].body

UsersOf(coll, email) == {u \in coll : u.email = email}

ProtectedUserFields ==
    {"role", "isPremium", "premiumSince", "lastTransactionId", "createdAt"}

\* C20: a user upsert for an email with no User document creates one with
\* role = user and isPremium = false; for an email that has a document it
\* changes only name, photoURL and updatedAt, leaving role, isPremium,
\* premiumSince, lastTransactionId and createdAt as they were, whatever the
\* request body contains.
C20_UpsertKeepsRole ==
    UpsertDone =>
        LET email == req[SeqProc].body.email
            before == UsersOf(pre.users, email)
            after == UsersOf(users, email)
        IN /\ resp[SeqProc].status = 200
           /\ \A u \in pre.users : u.email # email => u \in users
           /\ Cardinality(after) = 1
           /\ before = {} =>
                  \A u \in after : u.role = "user" /\ u.isPremium = FALSE
           /\ \A b \in before : \A a \in after :
                  /\ a._id = b._id
                  /\ \A f \in (DOMAIN a \cup DOMAIN b) \ {"name", "photoURL", "updatedAt"} :
                         /\ f \in DOMAIN a <=> f \in DOMAIN b
                         /\ f \in DOMAIN b => a[f] = b[f]

\* A body naming role admin and a new transaction was upserted over the
\* document of a paying user.
C20_Witness ==
    /\ UpsertDone
    /\ "role" \in DOMAIN req[SeqProc].body
    /\ \E u \in users :
           /\ u.email = req[SeqProc].body.email
           /\ u.name = "B"
           /\ u.isPremium = TRUE
           /\ "role" \in DOMAIN u
           /\ u.role = "user"
           /\ u.lastTransactionId # req[SeqProc].body.lastTransactionId

\* Authorization headers that are missing, carry no token part, or carry a
\* token that does not verify.
MissingHeaders == {NoHeader}
TokenlessHeaders ==
    {<<"Bearer">>, <<"Bearer", " ">>, <<"tok_a">>, <<"Bearer", " ", " ", "tok_a">>}
BadTokenHeaders == {<<"Bearer", " ", "expired">>}

\* The request in the slot came with such a header.
Unauthenticated ==
    /\ req[SeqProc].op = "verifyFBToken"
    /\ req[SeqProc].headers \in
           MissingHeaders \cup TokenlessHeaders \cup BadTokenHeaders

\* C19: on a protected route a request with no Authorization header, with a
\* header that has no token part, or with a token that fails verification
\* receives 401 "unauthorized" in all three cases; no later guard and no
\* handler runs for it, and no document is read or changed.
C19_Unauthorized ==
    Unauthenticated =>
        /\ pc[SeqProc] \in {"auth_verify", "done"}
        /\ pc[SeqProc] = "done" =>
               /\ resp[SeqProc].status = 401
               /\ resp[SeqProc].body = Msg("unauthorized")
        /\ loc[SeqProc] = NoLoc
        /\ users = pre.users
        /\ lessons = pre.lessons
        /\ favorites = pre.favorites

\* A token that does not verify was refused while the store holds a lesson.
C19_Witness ==
    /\ Unauthenticated
    /\ req[SeqProc].headers \in BadTokenHeaders
    /\ pc[SeqProc] = "done"
    /\ resp[SeqProc].status = 401
    /\ lessons # {}

\* The provider holds a paid session of this id that names this email, as
\* its customer or, when it names no customer, in its metadata.
PaidFor(sessionId, email) ==
    \E s \in Sessions :
        /\ s.id = sessionId
        /\ s.payment_status = "paid"
        /\ \/ s.customer_email = email
           \/ /\ s.customer_email = ""
              /\ "email" \in DOMAIN s.metadata
              /\ s.metadata.email = email

IsPremiumUser(u) == "isPremium" \in DOMAIN u /\ u.isPremium = TRUE

\* Slot p completes the write of a payment-success request in this step.
PaymentWrites(p) ==
    /\ req[p].op = "paymentSuccess"
    /\ pc[p] = "pay_upsert"
    /\ pc'[p] = "done"

\* Slot p takes a step of a payment-success request in this step.
PaymentSteps(p) ==
    /\ req'[p].op = "paymentSuccess"
    /\ pc'[p] = "done"
    /\ (pc[p] # "done" \/ req[p] # req'[p] \/ nreq' # nreq)

\* C21: a User document has isPremium = true only if a payment-success
\* request was processed whose session was paid and resolved to that user's
\* email; a payment-success request whose session is not paid, or names no
\* email, changes no User document; no other operation sets isPremium.
C21_PremiumOnlyByPayment ==
    /\ \A u \in users : ~IsPremiumUser(u)
    /\ [][/\ \A u \in users' :
               IsPremiumUser(u) =>
                   \/ \E v \in users : v.email = u.email /\ IsPremiumUser(v)
                   \/ \E p \in Procs :
                          PaymentWrites(p) /\ PaidFor(req[p].session_id, u.email)
          /\ \A p \in Procs :
               (PaymentSteps(p) /\
                ~\E e \in Emails : PaidFor(req'[p].session_id, e))
                   => users' = users]_vars

\* A paid session made an account premium that was not, and a request with
\* the unpaid session has been answered since.
C21_Witness ==
    /\ prev.op = "paymentSuccess"
    /\ prev.req.session_id = "cs_a"
    /\ \E v \in prev.pre.users : v.email = "a@x" /\ ~IsPremiumUser(v)
    /\ \E u \in users : u.email = "a@x" /\ IsPremiumUser(u)
    /\ pc[SeqProc] = "done"
    /\ req[SeqProc].op = "paymentSuccess"
    /\ req[SeqProc].session_id = "cs_u"
    /\ resp[SeqProc].body.success = FALSE

\* The latest two requests were payment confirmations of the same paid
\* session, both answered.
SamePaymentTwice ==
    /\ pc[SeqProc] = "done"
    /\ req[SeqProc].op = "paymentSuccess"
    /\ prev.op = "paymentSuccess"
    /\ prev.req.session_id = req[SeqProc].session_id
    /\ \E e \in Emails : PaidFor(req[SeqProc].session_id, e)

\* Documents a and b agree on field f: both lack it or both hold one value.
SameField(a, b, f) ==
    /\ f \in DOMAIN a <=> f \in DOMAIN b
    /\ f \in DOMAIN a => a[f] = b[f]

\* C22: processing a payment-success request a second time with the same
\* paid session id leaves the user with isPremium = true and the same
\* lastTransactionId, creates no second User document for that email, and
\* leaves role and createdAt as they were after the first processing.
C22_PaymentIdempotent ==
    SamePaymentTwice =>
        \A e \in Emails :
            PaidFor(req[SeqProc].session_id, e) =>
                /\ Cardinality(UsersOf(pre.users, e)) = 1
                /\ Cardinality(UsersOf(users, e)) = 1
                /\ \A u \in UsersOf(users, e), v \in UsersOf(pre.users, e) :
                       /\ IsPremiumUser(u)
                       /\ IsPremiumUser(v)
                       /\ u._id = v._id
                       /\ SameField(u, v, "lastTransactionId")
                       /\ "lastTransactionId" \in DOMAIN u
                       /\ SameField(u, v, "role")
                       /\ SameField(u, v, "createdAt")

\* The session paid for b@x was confirmed twice, the first time creating
\* the account.
C22_Witness ==
    /\ SamePaymentTwice
    /\ req[SeqProc].session_id = "cs_b"
    /\ resp[SeqProc].body.success = TRUE
    /\ prev.resp.body.success = TRUE
    /\ UsersOf(prev.pre.users, "b@x") = {}
    /\ UsersOf(users, "b@x") # {}

\* C23: for any number of getDB calls that start before the first
\* connection attempt has completed, exactly one client is constructed and
\* exactly one connect is issued; all those callers receive the same handle,
\* and every call after the attempt has succeeded returns that handle
\* without constructing a client.
C23_OneConnection ==
    /\ nreq > 0 => attempts # <<>>
    /\ (attempts # <<>> /\ attempts[1] # "rejected") =>
           /\ Len(attempts) = 1
           /\ globalCache.promise = 1
           /\ attempts[1] = "fulfilled" =>
                  globalCache.client = 1 /\ globalCache.db = 1
           /\ \A p \in Procs :
                  /\ pc[p] = "await_db" => loc[p].awaits = 1
                  /\ pc[p] = "user_find" => loc[p].database = 1
                  /\ pc[p] = "done" =>
                         /\ resp[p].status = 200
                         /\ loc[p].database = 1

\* The first attempt has succeeded; one caller that started before it did
\* holds the handle, another still waits for it, and later calls were made.
C23_Witness ==
    /\ attempts = <<"fulfilled">>
    /\ \E p, q \in Procs :
           /\ pc[p] = "await_db"
           /\ pc[q] = "user_find"
           /\ loc[q].database = 1
           /\ nreq > 2

\* C30: if the first connection attempt fails, its rejected promise stays in
\* the cache: no later getDB call constructs a client or issues a connect,
\* every later call fails with that same error, and the cached handle is
\* never set.
C30_FailedAttemptCached ==
    (attempts # <<>> /\ attempts[1] = "rejected") =>
        /\ Len(attempts) = 1
        /\ globalCache = [client |-> 0, db |-> 0, promise |-> 1]
        /\ \A p \in Procs :
               /\ pc[p] \in {"idle", "await_db", "done"}
               /\ pc[p] = "await_db" => loc[p].awaits = 1
               /\ pc[p] = "done" =>
                      /\ resp[p].status = 500
                      /\ resp[p].body = Msg("Server error")

\* The first attempt failed and more requests than there are slots have
\* been answered or wait: some of them arrived after the failure.
C30_Witness ==
    /\ attempts = <<"rejected">>
    /\ nreq = MaxReqs
    /\ \A p \in Procs : pc[p] = "done" /\ resp[p].status = 500

NamedEmail ==
    IF req[SeqProc].op = "checkAdminSelf" THEN req[SeqProc].target
    ELSE req[SeqProc].query.email

SelfReadDone ==
    /\ pc[SeqProc] = "done"
    /\ req[SeqProc].op \in {"checkAdminSelf", "myLessons"}

\* C25: GET /users/admin/:email answers 403 whenever :email differs from the
\* verified principal's email, and GET /lessons/my answers 403 whenever the
\* email query parameter differs from it (400 when it is missing); on
\* success each returns only data derived from the principal's own email.
C25_SelfOnlyReads ==
    SelfReadDone =>
        LET principal == req[SeqProc].email
            body == resp[SeqProc].body
        IN /\ NamedEmail = "" => resp[SeqProc].status = 400
           /\ (NamedEmail # "" /\ NamedEmail # principal) =>
                  /\ resp[SeqProc].status = 403
                  /\ body = Msg("forbidden")
           /\ NamedEmail = principal => resp[SeqProc].status = 200
           /\ (resp[SeqProc].status = 200 /\ req[SeqProc].op = "myLessons") =>
                  /\ \A i \in 1..Len(body) : body[i].creatorEmail = principal
                  /\ {body[i] : i \in 1..Len(body)} =
                         {d \in pre.lessons :
                             d.creatorEmail = principal /\ d.isDeleted # TRUE}
           /\ (resp[SeqProc].status = 200 /\ req[SeqProc].op = "checkAdminSelf") =>
                  body.admin =
                      (\E u \in pre.users :
                          /\ u.email = principal
                          /\ "role" \in DOMAIN u
                          /\ u.role = "admin")

\* A principal asked for another account's data and was refused, while
\* that other account has a lesson or is an admin.
C25_Witness ==
    /\ SelfReadDone
    /\ NamedEmail \notin {"", req[SeqProc].email}
    /\ resp[SeqProc].status = 403
    /\ \/ /\ req[SeqProc].op = "myLessons"
          /\ \E d \in lessons : d.creatorEmail = NamedEmail
       \/ /\ req[SeqProc].op = "checkAdminSelf"
          /\ \E u \in users : u.email = NamedEmail /\ u.role = "admin"

HasAdmin(coll) == \E u \in coll : "role" \in DOMAIN u /\ u.role = "admin"

\* C26: starting from a state with at least one User of role admin, at least
\* one admin User exists in every reachable state, for any interleaving of
\* role-update, make-admin and delete-user requests issued by admins.
C26_AdminRemains == [][HasAdmin(users) => HasAdmin(users')]_vars

\* C27: every User document has role in {user, admin}, whichever path
\* created it: a document first created by the payment-success upsert and
\* later touched by POST /users still has a role of user or admin.
C27_RoleAlwaysSet ==
    \A u \in users : "role" \in DOMAIN u /\ u.role \in {"user", "admin"}

\* POST /users has been answered for an account that has no role.
RolelessAfterSignIn ==
    /\ pc[SeqProc] = "done"
    /\ req[SeqProc].op = "upsertUser"
    /\ resp[SeqProc].status = 200
    /\ \E u \in users : u.email = req[SeqProc].body.email /\ "role" \notin DOMAIN u

\* C28: once a lesson has isDeleted = true, no request (update,
\* toggle-visibility, set-featured, set-reviewed, like, favorite, admin or
\* owner soft-delete) sets it back to false; the lesson stays deleted until
\* an admin hard-delete removes the document.
C28_SoftDeleteIrreversible ==
    [][\A d \in lessons :
          d.isDeleted = TRUE =>
              \A e \in lessons' : e._id = d._id => e.isDeleted = TRUE]_vars

\* An admin toggled the visibility of a lesson that was already deleted
\* when the request arrived; the lesson is still there and still deleted.
C28_Witness ==
    /\ pc[SeqProc] = "done"
    /\ req[SeqProc].op = "toggleLessonVisibility"
    /\ resp[SeqProc].status = 200
    /\ \E d \in pre.lessons : d._id = req[SeqProc].id /\ d.isDeleted = TRUE
    /\ \E e \in lessons :
           /\ e._id = req[SeqProc].id
           /\ e.isDeleted = TRUE
           /\ e.visibility = resp[SeqProc].body.visibility
           /\ \A d \in pre.lessons : d._id = e._id => d.visibility # e.visibility

\* Slot p's update request runs its updateOne in this step.
UpdateWrites(p) ==
    /\ req[p].op = "updateLesson"
    /\ pc[p] = "update_write"
    /\ pc'[p] = "done"

\* C29: an owner/admin update request never changes the allow-listed fields
\* of a lesson that has isDeleted = true at the moment of the write, even
\* when a soft-delete request for the same lesson runs between the
\* ownership guard's read and the handler's updateOne.
C29_NoUpdateOfDeleted ==
    [][\A p \in Procs :
          UpdateWrites(p) =>
              \A d \in lessons :
                  (d._id = req[p].id /\ d.isDeleted = TRUE) =>
                      \A e \in lessons' :
                          e._id = d._id =>
                              \A f \in UpdatableFields : e[f] = d[f]]_vars

====
